---- MODULE Spec2Model ----
(***************************************************************************)
(* A model of the DNS wire-format codec (LemangK/dns): the message header, *)
(* the domain-name codec with compression pointers, the resource-record    *)
(* variants, the EDNS0 option sub-codec and the message orchestrator.      *)
(*                                                                         *)
(* Conventions.  A byte buffer is a sequence of numbers 0..255; the code's *)
(* zero-based offset off is the element buf[off + 1].  Text (DomainString, *)
(* String) is a sequence of character codes, so that splitting on '.',     *)
(* escaping and hex conversion are computed as the code computes them.     *)
(* A fallible call returns a record with st = "Ok" or "Err"; a call that   *)
(* reaches an out-of-range slice or a failed unwrap returns st = "Panic".  *)
(* A u32 (the ttl) is the pair <<high 16 bits, low 16 bits>>, since the    *)
(* checker's integers are 32-bit signed.                                   *)
(***************************************************************************)
EXTENDS Integers, Sequences, FiniteSets, TLC

VARIABLES
    phase,      \* position of the driver of the codec (which call comes next)
    m,          \* the Msg handed to Msg::pack
    wire,       \* the byte buffer: output of pack, input of unpack
    packed,     \* result of Msg::pack
    out,        \* result of Msg::unpack
    outq,       \* result of Msg::unpack_questions
    rr,         \* the record of the record-level round trip
    rrout,      \* its decode result
    dec,        \* the decoder being stepped through wire
    nstart,     \* start offset of the name decoders
    nexp,       \* the pointer-free encoding of the name at nstart (empty: not given)
    ud,         \* loop state of unpack_domain_name
    sk,         \* loop state of __skip_domain_name
    lb,         \* loop state of read_string_recursive (Labels::unpack)
    md,         \* state of Msg::unpack stepped record by record
    arg,        \* arguments of the single call under test
    ret         \* what that call returned

vars == <<phase, m, wire, packed, out, outq, rr, rrout, dec, nstart, nexp, ud, sk, lb, md, arg, ret>>

----------------------------------------------------------------------------
(* Program constants *)

MAX_DOMAIN_NAME_WIRE_OCTETS == 255
MAX_COMPRESSION_POINTERS == (MAX_DOMAIN_NAME_WIRE_OCTETS + 1) \div 2 - 2
RECURSION_LIMIT == 8

TYPE_A == 1
TYPE_CNAME == 5
TYPE_AAAA == 28
TYPE_OPT == 41
CLASS_INET == 1
RCODE_SUCCESS == 0
OPCODE_QUERY == 0
EDNS0NSID == 3
EDNS0SUBNET == 8
DO_BIT == 32768

----------------------------------------------------------------------------
(* Sequences, bytes and fixed-width integers *)

None == [st |-> "None"]

Pow2(n) == 2 ^ n

Take(s, n) == SubSeq(s, 1, n)
Drop(s, n) == SubSeq(s, n + 1, Len(s))

\* buf[a..b) with the code's zero-based, end-exclusive bounds
Slice(buf, a, b) == SubSeq(buf, a + 1, b)

\* v.to_be_bytes() / put_u16 / put_u32
U16Bytes(v) == <<(v \div 256) % 256, v % 256>>
U32Bytes(v) == U16Bytes(v[1]) \o U16Bytes(v[2])

\* BigEndian::read_u16 / read_u32 of a slice known to be long enough
BeU16(buf, off) == buf[off + 1] * 256 + buf[off + 2]
BeU32(buf, off) == <<BeU16(buf, off), BeU16(buf, off + 2)>>

\* x & (1 << k) != 0
Bit(x, k) == (x \div Pow2(k)) % 2 = 1

Rep(n, v) == [i \in 1..n |-> v]

\* set_value_offset: overwrite the two bytes at start with v, big-endian.
\* An out-of-range start is reported through ok (the slice would panic).
set_value_offset(buf, start, v) ==
    IF start < 0 \/ start + 2 > Len(buf)
    THEN [ok |-> FALSE, buf |-> buf]
    ELSE [ok |-> TRUE,
          buf |-> [i \in 1..Len(buf) |->
                     IF i = start + 1 THEN (v \div 256) % 256
                     ELSE IF i = start + 2 THEN v % 256
                     ELSE buf[i]]]

\* set_rd_length: patch the last two bytes of the buffer
set_rd_length(buf, v) == set_value_offset(buf, Len(buf) - 2, v)

\* set_rd: patch the rdlength just written by the record header, append data
\* (a buffer shorter than two bytes panics in set_rd_length, before put_slice)
set_rd(buf, data) ==
    LET append(p) == IF p.ok THEN [ok |-> TRUE, buf |-> p.buf \o data]
                     ELSE [ok |-> FALSE, buf |-> buf]
    IN  append(set_rd_length(buf, Len(data) % 65536))

----------------------------------------------------------------------------
(* Domain-name codec: encode *)

\* no split at all: the whole text as one segment
SplitDot_whole(s) == <<s>>

\* input.split('.'): the segments between dots, empty ones included
SplitDot(s) ==
    LET dots == {i \in 1..Len(s) : s[i] = 46}
        n == Cardinality(dots) + 1
        DotAt(k) == IF k = 0 THEN 0
                    ELSE IF k = n THEN Len(s) + 1
                    ELSE CHOOSE i \in dots : Cardinality({j \in dots : j < i}) = k - 1
    IN  [k \in 1..n |-> SubSeq(s, DotAt(k - 1) + 1, DotAt(k) - 1)]

\* label_to_ascii without the with_idna feature: the identity, never fails
label_to_ascii(label) == label

\* the loop of pack_domain_name over the segments, from segment i on
RECURSIVE pack_labels(_, _, _)
pack_labels(segs, i, buf) ==
    IF i > Len(segs) THEN [st |-> "Ok", buf |-> Append(buf, 0)]
    ELSE IF segs[i] = <<>> THEN pack_labels(segs, i + 1, buf)
    ELSE LET label_idn == label_to_ascii(segs[i])
         IN  IF Len(label_idn) > 255
             THEN [st |-> "Err", err |-> "Other", label |-> segs[i], buf |-> buf]
             ELSE pack_labels(segs, i + 1, (buf \o <<Len(label_idn)>>) \o label_idn)

\* pack_domain_name(input, buf): buf is the buffer so far; the result holds
\* the buffer afterwards, also on failure (the labels written before it).
pack_domain_name(input, buf) == pack_labels(SplitDot(input), 1, buf)

\* cal_domain_name_len
RECURSIVE cal_labels_len(_, _, _)
cal_labels_len(segs, i, size) ==
    IF i > Len(segs) THEN size + 1
    ELSE IF segs[i] = <<>> THEN cal_labels_len(segs, i + 1, size)
    ELSE IF Len(label_to_ascii(segs[i])) > 255 THEN 0
    ELSE cal_labels_len(segs, i + 1, size + 1 + Len(label_to_ascii(segs[i])))

cal_domain_name_len(input) == cal_labels_len(SplitDot(input), 1, 0)

\* the loop of Labels::encode over the segments, from segment i on
RECURSIVE encode_labels(_, _, _)
encode_labels(segs, i, segments) ==
    IF i > Len(segs) THEN [st |-> "Ok", segments |-> segments]
    ELSE IF segs[i] = <<>> THEN encode_labels(segs, i + 1, segments)
    ELSE IF Len(label_to_ascii(segs[i])) > 255
    THEN [st |-> "Err", label |-> segs[i], segments |-> segments]
    ELSE encode_labels(segs, i + 1,
                       Append(segments, [length |-> Len(label_to_ascii(segs[i])),
                                         label |-> label_to_ascii(segs[i])]))

\* Labels::encode(input, segments) with segments empty on entry
Labels_encode(input) == encode_labels(SplitDot(input), 1, <<>>)

\* Labels::pack: each segment as [length][bytes], then the zero byte
RECURSIVE Labels_pack_from(_, _, _)
Labels_pack_from(segments, i, buf) ==
    IF i > Len(segments) THEN Append(buf, 0)
    ELSE Labels_pack_from(segments, i + 1, (buf \o <<segments[i].length>>) \o segments[i].label)

Labels_pack(segments, buf) == Labels_pack_from(segments, 1, buf)

\* the loop of Labels::encode_to_buf over the segments, from segment i on
RECURSIVE encode_to_buf_labels(_, _, _)
encode_to_buf_labels(segs, i, buf) ==
    IF i > Len(segs) THEN [st |-> "Ok", buf |-> Append(buf, 0)]
    ELSE IF segs[i] = <<>> THEN encode_to_buf_labels(segs, i + 1, buf)
    ELSE LET label_idn == label_to_ascii(segs[i])
         IN  IF Len(label_idn) > 255
             THEN [st |-> "Err", err |-> "Other", label |-> segs[i], buf |-> buf]
             ELSE encode_to_buf_labels(segs, i + 1, (buf \o <<Len(label_idn)>>) \o label_idn)

\* Labels::encode_to_buf(input, buf): the labels go to the buffer one by one,
\* so a failure leaves the labels written before it
Labels_encode_to_buf(input, buf) == encode_to_buf_labels(SplitDot(input), 1, buf)

\* Labels::encode_with_io(input) followed by Labels::pack(buf)
Labels_encode_pack(input, buf) ==
    LET packed_(e) == IF e.st # "Ok" THEN [st |-> "Err", err |-> "Other", label |-> e.label, buf |-> buf]
                      ELSE [st |-> "Ok", buf |-> Labels_pack(e.segments, buf)]
    IN  packed_(Labels_encode(input))

----------------------------------------------------------------------------
(* Domain-name codec: decode *)

is_domain_name_label_special(b) == b \in {46, 32, 39, 64, 59, 40, 41, 34, 92}

\* escape_byte: the four characters \DDD of the tables ESCAPED_BYTE_SMALL
\* and ESCAPED_BYTE_LARGE, DDD being b in decimal
escape_byte(b) == <<92, 48 + (b \div 100), 48 + ((b \div 10) % 10), 48 + (b % 10)>>

\* the text pushed for one label byte
LabelByteText(b) ==
    IF is_domain_name_label_special(b) THEN <<92, b>>
    ELSE IF b < 32 \/ b > 126 THEN escape_byte(b)
    ELSE <<b>>

RECURSIVE LabelText(_)
LabelText(bs) == IF bs = <<>> THEN <<>> ELSE LabelByteText(Head(bs)) \o LabelText(Tail(bs))

\* a wrong reading of a pointer: the two marker bits are not cleared
pointer_offset_unmasked(c, c1) == c * 256 + c1

\* the offset a compression pointer names: ((c ^ 0xC0) << 8) | c1
pointer_offset(c, c1) == (c - 192) * 256 + c1

\* locals of unpack_domain_name on entry to its loop
unpack_domain_name_init(off) ==
    [ret |-> "run", err |-> "", off |-> off, off1 |-> 0,
     budget |-> MAX_DOMAIN_NAME_WIRE_OCTETS, ptr |-> 0, s |-> <<>>, iters |-> 0]

\* one iteration of the loop of unpack_domain_name
unpack_domain_name_loop(buf, d) ==
    LET lenmsg == Len(buf)
        n == [d EXCEPT !.iters = @ + 1]
    IN
    IF d.off >= lenmsg THEN [n EXCEPT !.ret = "err", !.err = "buffer size too small"]
    ELSE
    LET c == buf[d.off + 1]
        off == d.off + 1
        top == (c \div 64) * 64
    IN
    IF top = 0 THEN
        IF c = 0 THEN [n EXCEPT !.ret = "break", !.off = off]
        ELSE IF off + c > lenmsg
            THEN [n EXCEPT !.ret = "err", !.err = "buffer size too small", !.off = off]
        ELSE IF d.budget - (c + 1) < 0
            THEN [n EXCEPT !.ret = "err", !.err = "domain name exceeded 255 wire-format octets",
                           !.off = off, !.budget = d.budget - (c + 1)]
        ELSE [n EXCEPT !.budget = d.budget - (c + 1),
                       !.s = (d.s \o LabelText(Slice(buf, off, off + c))) \o <<46>>,
                       !.off = off + c]
    ELSE IF top = 192 THEN
        IF off >= lenmsg
            THEN [n EXCEPT !.ret = "err", !.err = "buffer size too small", !.off = off]
        ELSE
        LET c1 == buf[off + 1]
            off1 == IF d.ptr = 0 THEN off + 1 ELSE d.off1
        IN  IF d.ptr + 1 > MAX_COMPRESSION_POINTERS
            THEN [n EXCEPT !.ret = "err", !.err = "too many compression pointers",
                           !.off = off + 1, !.off1 = off1, !.ptr = d.ptr + 1]
            ELSE [n EXCEPT !.off = pointer_offset(c, c1), !.off1 = off1, !.ptr = d.ptr + 1]
    ELSE [n EXCEPT !.ret = "err", !.err = "bad rdata", !.off = off]

\* the loop of unpack_domain_name run for up to n iterations from state d;
\* the two halves are evaluated one after the other
RECURSIVE unpack_domain_name_iter(_, _, _)
unpack_domain_name_iter(buf, d, n) ==
    IF d.ret # "run" THEN d
    ELSE IF n = 1 THEN unpack_domain_name_loop(buf, d)
    ELSE CHOOSE r \in {unpack_domain_name_iter(buf, x, n - n \div 2) :
                          x \in {unpack_domain_name_iter(buf, d, n \div 2)}} : TRUE

\* the loop of unpack_domain_name run until it returns: every iteration
\* either follows a pointer (at most MAX_COMPRESSION_POINTERS) or takes at
\* least two octets from the budget, so it ends within this many iterations
unpack_domain_name_run(buf, d) ==
    unpack_domain_name_iter(buf, d, MAX_DOMAIN_NAME_WIRE_OCTETS + 1)

\* a result whose position is where the traversal ended, pointers followed
unpack_domain_name_result_last(d) ==
    IF d.ret = "err" THEN [st |-> "Err", err |-> d.err]
    ELSE [st |-> "Ok", name |-> IF Len(d.s) = 0 THEN <<46>> ELSE d.s, pos |-> d.off]

\* what unpack_domain_name returns once its loop has ended in state d
unpack_domain_name_result(d) ==
    IF d.ret = "err" THEN [st |-> "Err", err |-> d.err]
    ELSE [st |-> "Ok",
          name |-> IF Len(d.s) = 0 THEN <<46>> ELSE d.s,
          pos |-> IF d.ptr = 0 THEN d.off ELSE d.off1]

unpack_domain_name(buf, off) ==
    unpack_domain_name_result(unpack_domain_name_run(buf, unpack_domain_name_init(off)))

\* locals of __skip_domain_name on entry to its loop
skip_domain_name_init(off) ==
    [ret |-> "run", off |-> off, off1 |-> 0,
     budget |-> MAX_DOMAIN_NAME_WIRE_OCTETS, ptr |-> 0, iters |-> 0]

\* one iteration of the loop of __skip_domain_name
skip_domain_name_loop(buf, d) ==
    LET lenmsg == Len(buf)
        n == [d EXCEPT !.iters = @ + 1]
    IN
    IF d.off >= lenmsg THEN [n EXCEPT !.ret = "none"]
    ELSE
    LET c == buf[d.off + 1]
        off == d.off + 1
        top == (c \div 64) * 64
    IN
    IF top = 0 THEN
        IF c = 0 THEN [n EXCEPT !.ret = "break", !.off = off]
        ELSE IF off + c > lenmsg THEN [n EXCEPT !.ret = "none", !.off = off]
        ELSE IF d.budget - (c + 1) < 0
            THEN [n EXCEPT !.ret = "none", !.off = off, !.budget = d.budget - (c + 1)]
        ELSE [n EXCEPT !.budget = d.budget - (c + 1), !.off = off + c]
    ELSE IF top = 192 THEN
        IF off >= lenmsg THEN [n EXCEPT !.ret = "none", !.off = off]
        ELSE
        LET c1 == buf[off + 1]
            off1 == IF d.ptr = 0 THEN off + 1 ELSE d.off1
        IN  IF d.ptr + 1 > MAX_COMPRESSION_POINTERS
            THEN [n EXCEPT !.ret = "none", !.off = off + 1, !.off1 = off1, !.ptr = d.ptr + 1]
            ELSE [n EXCEPT !.off = (c - 192) * 256 + c1, !.off1 = off1, !.ptr = d.ptr + 1]
    ELSE [n EXCEPT !.ret = "none", !.off = off]

RECURSIVE skip_domain_name_iter(_, _, _)
skip_domain_name_iter(buf, d, n) ==
    IF d.ret # "run" THEN d
    ELSE IF n = 1 THEN skip_domain_name_loop(buf, d)
    ELSE CHOOSE r \in {skip_domain_name_iter(buf, x, n - n \div 2) :
                          x \in {skip_domain_name_iter(buf, d, n \div 2)}} : TRUE

\* the loop of __skip_domain_name run until it returns
skip_domain_name_run(buf, d) ==
    skip_domain_name_iter(buf, d, MAX_DOMAIN_NAME_WIRE_OCTETS + 1)

\* a result whose position is where the traversal ended, pointers followed
skip_domain_name_result_last(d) ==
    IF d.ret = "none" THEN [st |-> "None"] ELSE [st |-> "Some", pos |-> d.off]

\* what __skip_domain_name returns once its loop has ended in state d
skip_domain_name_result(d) ==
    IF d.ret = "none" THEN [st |-> "None"]
    ELSE [st |-> "Some", pos |-> IF d.ptr = 0 THEN d.off ELSE d.off1]

__skip_domain_name(buf, off) ==
    skip_domain_name_result(skip_domain_name_run(buf, skip_domain_name_init(off)))

----------------------------------------------------------------------------
(* Header codec *)

\* a | b on unsigned integers
RECURSIVE BitOr(_, _)
BitOr(a, b) ==
    IF a = 0 THEN b
    ELSE IF b = 0 THEN a
    ELSE (IF a % 2 = 1 \/ b % 2 = 1 THEN 1 ELSE 0) + 2 * BitOr(a \div 2, b \div 2)

\* MsgHdr::default()
DefaultHdr ==
    [id |-> 0, response |-> FALSE, op_code |-> 0, authoritative |-> FALSE,
     truncated |-> FALSE, recursion_desired |-> FALSE, recursion_available |-> FALSE,
     zero |-> FALSE, authenticated_data |-> FALSE, checking_disabled |-> FALSE,
     response_code |-> 0]

FlagIf(b, k) == IF b THEN Pow2(k) ELSE 0

\* impl Into<PktMsgHeader> for MsgHdr: the flags word (the counts stay 0)
MsgHdrBits(h) ==
    LET b0 == BitOr((h.op_code * 2048) % 65536, h.response_code % 16)
        b1 == BitOr(b0, FlagIf(h.response, 15))
        b2 == BitOr(b1, FlagIf(h.authoritative, 10))
        b3 == BitOr(b2, FlagIf(h.truncated, 9))
        b4 == BitOr(b3, FlagIf(h.recursion_desired, 8))
        b5 == BitOr(b4, FlagIf(h.recursion_available, 7))
        b6 == BitOr(b5, FlagIf(h.zero, 6))
        b7 == BitOr(b6, FlagIf(h.authenticated_data, 5))
    IN  BitOr(b7, FlagIf(h.checking_disabled, 4))

MsgHdrIntoPkt(h) ==
    [id |-> h.id, bits |-> MsgHdrBits(h), question_count |-> 0, answer_count |-> 0,
     authority_count |-> 0, additional_count |-> 0]

\* impl From<PktMsgHeader> for MsgHdr
MsgHdrFromPkt(p) ==
    [id |-> p.id,
     response |-> Bit(p.bits, 15),
     op_code |-> (p.bits \div 2048) % 16,
     authoritative |-> Bit(p.bits, 10),
     truncated |-> Bit(p.bits, 9),
     recursion_desired |-> Bit(p.bits, 8),
     recursion_available |-> Bit(p.bits, 7),
     zero |-> Bit(p.bits, 6),
     authenticated_data |-> Bit(p.bits, 5),
     checking_disabled |-> Bit(p.bits, 4),
     response_code |-> p.bits % 16]

\* a header written with the flags word ahead of the id
PktMsgHeader_pack_bits_first(p, buf) ==
    buf \o U16Bytes(p.bits) \o U16Bytes(p.id) \o U16Bytes(p.question_count)
        \o U16Bytes(p.answer_count) \o U16Bytes(p.authority_count)
        \o U16Bytes(p.additional_count)

\* PktMsgHeader::pack: six big-endian u16 in the order of the put_u16 calls
PktMsgHeader_pack(p, buf) ==
    buf \o U16Bytes(p.id) \o U16Bytes(p.bits) \o U16Bytes(p.question_count)
        \o U16Bytes(p.answer_count) \o U16Bytes(p.authority_count)
        \o U16Bytes(p.additional_count)

\* PktMsgHeader::unpack: six read_u16, each failing on a short buffer
PktMsgHeader_unpack(buf, pos) ==
    IF pos + 12 > Len(buf) THEN [st |-> "Err", err |-> "UnexpectedEof", pos |-> Len(buf)]
    ELSE [st |-> "Ok", pos |-> pos + 12,
          val |-> [id |-> BeU16(buf, pos), bits |-> BeU16(buf, pos + 2),
                   question_count |-> BeU16(buf, pos + 4),
                   answer_count |-> BeU16(buf, pos + 6),
                   authority_count |-> BeU16(buf, pos + 8),
                   additional_count |-> BeU16(buf, pos + 10)]]

----------------------------------------------------------------------------
(* Hex text (the hex crate) *)

HexDigit(v) == IF v < 10 THEN 48 + v ELSE 87 + v

\* hex::encode: two lowercase digits per byte
RECURSIVE hex_encode(_)
hex_encode(bs) ==
    IF bs = <<>> THEN <<>>
    ELSE <<HexDigit(Head(bs) \div 16), HexDigit(Head(bs) % 16)>> \o hex_encode(Tail(bs))

\* val(c): the value of a hex digit, -1 for any other character
HexVal(c) ==
    IF c >= 48 /\ c <= 57 THEN c - 48
    ELSE IF c >= 97 /\ c <= 102 THEN c - 87
    ELSE IF c >= 65 /\ c <= 70 THEN c - 55
    ELSE -1

\* the loop of hex::decode_to_slice from byte i on; acc is the slice so far
RECURSIVE hex_decode_from(_, _, _)
hex_decode_from(data, i, acc) ==
    IF i > Len(acc) THEN [st |-> "Ok", bytes |-> acc]
    ELSE LET hi == HexVal(data[2 * i - 1])
             lo == HexVal(data[2 * i])
         IN  IF hi < 0 \/ lo < 0
             THEN [st |-> "Err", err |-> "InvalidHexCharacter", bytes |-> acc]
             ELSE hex_decode_from(data, i + 1, [acc EXCEPT ![i] = hi * 16 + lo])

\* buf.extend_split(data.len() / 2) followed by hex::decode_to_slice(data, add):
\* the buffer grows by len/2 zero bytes first, and keeps them when decoding fails
hex_pack(data, buf) ==
    LET add == Rep(Len(data) \div 2, 0)
        decoded(r) == IF r.st = "Ok" THEN [st |-> "Ok", buf |-> buf \o r.bytes]
                      ELSE [st |-> "Err", err |-> r.err, buf |-> buf \o r.bytes]
    IN  IF Len(data) % 2 # 0 THEN [st |-> "Err", err |-> "OddLength", buf |-> buf \o add]
        ELSE decoded(hex_decode_from(data, 1, add))

----------------------------------------------------------------------------
(* EDNS0 options: encode *)

\* octet i (zero-based) of an address masked to its first prefix bits
MaskOctet(o, i, prefix) ==
    LET k == IF prefix - 8 * i >= 8 THEN 8 ELSE IF prefix - 8 * i <= 0 THEN 0 ELSE prefix - 8 * i
    IN  (o \div Pow2(8 - k)) * Pow2(8 - k)

\* the address as it stands, no bit cleared
NetworkOctets_unmasked(octets, prefix) == octets

\* IpNetwork::new(addr, prefix).network().octets()
NetworkOctets(octets, prefix) == [i \in 1..Len(octets) |-> MaskOctet(octets[i], i - 1, prefix)]

\* Ipv6Addr::to_ipv4_mapped
to_ipv4_mapped(o) ==
    IF (\A i \in 1..10 : o[i] = 0) /\ o[11] = 255 /\ o[12] = 255
    THEN [st |-> "Some", o |-> SubSeq(o, 13, 16)]
    ELSE [st |-> "None"]

\* Ipv4Addr::to_ipv6_mapped
to_ipv6_mapped(o) == Rep(10, 0) \o <<255, 255>> \o o

\* IEdns0::option
EDNS0_option(e) ==
    IF e.kind = "Nid" THEN EDNS0NSID
    ELSE IF e.kind = "SubNet" THEN EDNS0SUBNET
    ELSE e.code

NSID_pack(e, buf) == hex_pack(e.nsid, buf)

\* SubNet::pack: the four fixed bytes are written before any validation
SubNet_pack(e, buf) ==
    LET fixed(b) ==
            IF e.family = 0 THEN
                IF e.source_netmask # 0 THEN [st |-> "Err", err |-> "bad address family", buf |-> b]
                ELSE [st |-> "Ok", buf |-> b]
            ELSE IF e.family = 1 THEN
                IF e.source_netmask > 32 THEN [st |-> "Err", err |-> "bad netmask", buf |-> b]
                ELSE IF e.address.v = 4
                THEN [st |-> "Ok", buf |-> b \o NetworkOctets(e.address.o, e.source_netmask)]
                ELSE IF to_ipv4_mapped(e.address.o).st = "None"
                THEN [st |-> "Err", err |-> "bad address", buf |-> b]
                ELSE [st |-> "Ok",
                      buf |-> b \o NetworkOctets(to_ipv4_mapped(e.address.o).o, e.source_netmask)]
            ELSE IF e.family = 2 THEN
                IF e.source_netmask > 128 THEN [st |-> "Err", err |-> "bad netmask", buf |-> b]
                ELSE IF e.address.v = 4
                THEN [st |-> "Ok",
                      buf |-> b \o NetworkOctets(to_ipv6_mapped(e.address.o), e.source_netmask)]
                ELSE [st |-> "Ok", buf |-> b \o NetworkOctets(e.address.o, e.source_netmask)]
            ELSE [st |-> "Err", err |-> "bad address family", buf |-> b]
    IN  fixed(buf \o U16Bytes(e.family) \o <<e.source_netmask, e.source_scope>>)

LOCAL_pack(e, buf) == [st |-> "Ok", buf |-> buf \o e.data]

\* impl IEdns0 for EDNS0: pack
EDNS0_pack(e, buf) ==
    IF e.kind = "Nid" THEN NSID_pack(e, buf)
    ELSE IF e.kind = "SubNet" THEN SubNet_pack(e, buf)
    ELSE LOCAL_pack(e, buf)

----------------------------------------------------------------------------
(* Resource records: encode *)

\* RecourseRecordHdr::pack
RecourseRecordHdr_pack(h, buf) ==
    LET fields(n) ==
            IF n.st # "Ok" THEN n
            ELSE [st |-> "Ok",
                  buf |-> n.buf \o U16Bytes(h.typ) \o U16Bytes(h.class) \o U32Bytes(h.ttl)
                                \o U16Bytes(h.rd_length)]
    IN  fields(pack_domain_name(h.name, buf))

\* A::pack and AAAA::pack: set_rd with the address octets
A_pack(r, buf) ==
    LET done(p) == IF p.ok THEN [st |-> "Ok", buf |-> p.buf] ELSE [st |-> "Panic", buf |-> buf]
    IN  done(set_rd(buf, r.a))

AAAA_pack(r, buf) ==
    LET done(p) == IF p.ok THEN [st |-> "Ok", buf |-> p.buf] ELSE [st |-> "Panic", buf |-> buf]
    IN  done(set_rd(buf, r.aaaa))

\* CNAME::pack: the target, then its length patched into the two bytes before it
CNAME_pack(r, buf) ==
    LET start == Len(buf)
        patched(n, p) == IF p.ok THEN [st |-> "Ok", buf |-> p.buf]
                         ELSE [st |-> "Panic", buf |-> n.buf]
        named(n) ==
            IF n.st # "Ok" THEN n
            ELSE patched(n, set_value_offset(n.buf, start - 2, (Len(n.buf) - start) % 65536))
    IN  named(pack_domain_name(r.target, buf))

\* Opt::pack: per option its code, a zero length, the data, then the length patched
RECURSIVE Opt_pack_from(_, _, _)
Opt_pack_from(opts, i, buf) ==
    LET data(start, e) ==
            IF e.st # "Ok" THEN e
            ELSE Opt_pack_from(opts, i + 1,
                     set_value_offset(e.buf, start - 2, (Len(e.buf) - start) % 65536).buf)
        header(b) == data(Len(b), EDNS0_pack(opts[i], b))
    IN  IF i > Len(opts) THEN [st |-> "Ok", buf |-> buf]
        ELSE header(buf \o U16Bytes(EDNS0_option(opts[i])) \o U16Bytes(0))

Opt_pack(r, buf) == Opt_pack_from(r.option, 1, buf)

\* RFC3597::pack: the hex text decoded into the buffer (rdlength is not touched)
RFC3597_pack(r, buf) == hex_pack(r.data, buf)

\* impl RR for RecourseRecord: pack
RecourseRecord_pack(r, buf) ==
    IF r.kind = "A" THEN A_pack(r, buf)
    ELSE IF r.kind = "AAAA" THEN AAAA_pack(r, buf)
    ELSE IF r.kind = "CNAME" THEN CNAME_pack(r, buf)
    ELSE IF r.kind = "Opt" THEN Opt_pack(r, buf)
    ELSE RFC3597_pack(r, buf)

----------------------------------------------------------------------------
(* OPT accessors *)

\* Opt::extended_r_code: ((ttl & 0xFF000000 >> 24) << 4) as u16; the shift
\* binds tighter than &, so the mask is 0xFF
extended_r_code(opt) == ((opt.hdr.ttl[2] % 256) * 16) % 65536

\* a patch that stores the low byte of the code, without the shift by 4
op_extended_r_code_unshifted(opt, v) ==
    <<(opt.hdr.ttl[1] % 256) + (v % 256) * 256, opt.hdr.ttl[2]>>

\* Opt::op_extended_r_code: ttl & 0x00FFFFFF | ((v >> 4) as u32) << 24
op_extended_r_code(opt, v) ==
    <<(opt.hdr.ttl[1] % 256) + ((v \div 16) % 256) * 256, opt.hdr.ttl[2]>>

\* Opt::version: (ttl & 0x00FF0000 >> 16) as u8
version(opt) == opt.hdr.ttl[2] % 256

\* Opt::is_do
is_do(opt) == Bit(opt.hdr.ttl[2], 15)

\* Opt::udp_size
udp_size(opt) == opt.hdr.class

\* Opt::set_udp_size
set_udp_size(opt, size) == [opt EXCEPT !.hdr.class = size]

\* Opt::set_extended_r_code
set_extended_r_code(opt, v) == [opt EXCEPT !.hdr.ttl = op_extended_r_code(opt, v)]

\* Opt::set_do: for a one-element slice holding false, ttl ^= _DO and then
\* ttl &= _DO; in every other case ttl |= _DO
set_do(opt, d) ==
    LET hi == opt.hdr.ttl[1]
        lo == opt.hdr.ttl[2]
        flipped == IF Bit(lo, 15) THEN lo - DO_BIT ELSE lo + DO_BIT
    IN  IF Len(d) = 1 /\ ~d[1]
        THEN [opt EXCEPT !.hdr.ttl = <<0, (flipped \div DO_BIT) * DO_BIT>>]
        ELSE [opt EXCEPT !.hdr.ttl = <<hi, BitOr(lo, DO_BIT)>>]

----------------------------------------------------------------------------
(* Message orchestrator: encode *)

\* Msg::is_edns0 : the first OPT record of the additional list
RECURSIVE FirstOpt(_, _)
FirstOpt(recs, i) ==
    IF i > Len(recs) THEN None
    ELSE IF recs[i].kind = "Opt" THEN [st |-> "Some", val |-> recs[i]]
    ELSE FirstOpt(recs, i + 1)

\* a wrong search: the OPT record looked for in the authority list
is_edns0_authority(msg) == FirstOpt(msg.authority, 1)

is_edns0(msg) == FirstOpt(msg.additional, 1)

\* Question::pack
Question_pack(q, buf) ==
    LET fields(n) ==
            IF n.st # "Ok" THEN n
            ELSE [st |-> "Ok", buf |-> n.buf \o U16Bytes(q.q_type) \o U16Bytes(q.q_class)]
    IN  fields(pack_domain_name(q.name, buf))

RECURSIVE pack_questions(_, _, _)
pack_questions(qs, i, buf) ==
    LET next(r) == IF r.st # "Ok" THEN r ELSE pack_questions(qs, i + 1, r.buf)
    IN  IF i > Len(qs) THEN [st |-> "Ok", buf |-> buf]
        ELSE next(Question_pack(qs[i], buf))

\* the loops of Msg::pack over answer and authority: header, then payload
RECURSIVE pack_records(_, _, _)
pack_records(recs, i, buf) ==
    LET next(r) == IF r.st # "Ok" THEN r ELSE pack_records(recs, i + 1, r.buf)
        payload(h) == IF h.st # "Ok" THEN h ELSE next(RecourseRecord_pack(recs[i], h.buf))
    IN  IF i > Len(recs) THEN [st |-> "Ok", buf |-> buf]
        ELSE payload(RecourseRecordHdr_pack(recs[i].hdr, buf))

\* the header Msg::pack writes for a record of the additional list: for an
\* OPT record a clone whose ttl carries the extended response code
additional_hdr(rec, r_code) ==
    IF rec.kind = "Opt" THEN [rec.hdr EXCEPT !.ttl = op_extended_r_code(rec, r_code)]
    ELSE rec.hdr

RECURSIVE pack_additional(_, _, _, _)
pack_additional(recs, i, r_code, buf) ==
    LET next(r) == IF r.st # "Ok" THEN r ELSE pack_additional(recs, i + 1, r_code, r.buf)
        payload(h) == IF h.st # "Ok" THEN h ELSE next(RecourseRecord_pack(recs[i], h.buf))
    IN  IF i > Len(recs) THEN [st |-> "Ok", buf |-> buf]
        ELSE payload(RecourseRecordHdr_pack(additional_hdr(recs[i], r_code), buf))

\* the PktMsgHeader Msg::pack builds: flags from hdr, counts from the lists
pack_header(msg) ==
    [MsgHdrIntoPkt(msg.hdr) EXCEPT
        !.question_count = Len(msg.question) % 65536,
        !.answer_count = Len(msg.answer) % 65536,
        !.additional_count = Len(msg.authority) % 65536,
        !.authority_count = Len(msg.additional) % 65536]

\* Msg::pack(&self, buf)
Msg_pack(msg, buf) ==
    LET additional(ns) ==
            IF ns.st # "Ok" THEN ns
            ELSE pack_additional(msg.additional, 1, msg.hdr.response_code, ns.buf)
        authority(an) ==
            IF an.st # "Ok" THEN an ELSE additional(pack_records(msg.authority, 1, an.buf))
        answer(q) ==
            IF q.st # "Ok" THEN q ELSE authority(pack_records(msg.answer, 1, q.buf))
    IN  IF msg.hdr.response_code > 4095
        THEN [st |-> "Err", err |-> "BadResponseCode", buf |-> buf]
        ELSE IF is_edns0(msg).st = "None" /\ msg.hdr.response_code > 15
        THEN [st |-> "Err", err |-> "BadExtendedResponseCode", buf |-> buf]
        ELSE answer(pack_questions(msg.question, 1,
                                   PktMsgHeader_pack(pack_header(msg), buf)))

----------------------------------------------------------------------------
(* Message orchestrator: replies *)

\* Msg::as_reply
Msg_as_reply(self) ==
    [self EXCEPT !.hdr.response = TRUE, !.hdr.response_code = RCODE_SUCCESS]

\* Msg::set_question; id is the value drawn by id() (rand::thread_rng().gen())
Msg_set_question(self, name, q_type, id) ==
    [self EXCEPT !.hdr.id = id, !.hdr.recursion_desired = TRUE,
                 !.question = <<[name |-> name, q_type |-> q_type, q_class |-> CLASS_INET]>>]

\* Msg::set_hdr: the header becomes the conversion of the wire header, the
\* sections stay
Msg_set_hdr(self, h) == [self EXCEPT !.hdr = MsgHdrFromPkt(h)]

\* a reply that takes the two flags from the request whatever the opcode
Msg_set_reply_any_opcode(self, request) ==
    [self EXCEPT !.hdr.id = request.hdr.id, !.hdr.response = TRUE,
                 !.hdr.op_code = request.hdr.op_code,
                 !.hdr.recursion_desired = request.hdr.recursion_desired,
                 !.hdr.checking_disabled = request.hdr.checking_disabled,
                 !.hdr.response_code = RCODE_SUCCESS,
                 !.question = IF Len(request.question) > 0 THEN <<request.question[1]>>
                              ELSE self.question]

\* Msg::set_reply
Msg_set_reply(self, request) ==
    [self EXCEPT !.hdr.id = request.hdr.id, !.hdr.response = TRUE,
                 !.hdr.op_code = request.hdr.op_code,
                 !.hdr.recursion_desired =
                     IF request.hdr.op_code = OPCODE_QUERY THEN request.hdr.recursion_desired
                     ELSE self.hdr.recursion_desired,
                 !.hdr.checking_disabled =
                     IF request.hdr.op_code = OPCODE_QUERY THEN request.hdr.checking_disabled
                     ELSE self.hdr.checking_disabled,
                 !.hdr.response_code = RCODE_SUCCESS,
                 !.question = IF Len(request.question) > 0 THEN <<request.question[1]>>
                              ELSE self.question]

\* Msg::set_response_code
Msg_set_response_code(self, request, response_code) ==
    [Msg_set_reply(self, request) EXCEPT !.hdr.response_code = response_code]

----------------------------------------------------------------------------
(* Cursor reads.  A failed read_exact leaves the cursor at the end of the   *)
(* buffer; every caller but unpack_questions abandons the cursor then.      *)

read_u16(buf, pos) ==
    IF pos + 2 > Len(buf) THEN [st |-> "Err", err |-> "UnexpectedEof", pos |-> Len(buf)]
    ELSE [st |-> "Ok", val |-> BeU16(buf, pos), pos |-> pos + 2]

read_u32(buf, pos) ==
    IF pos + 4 > Len(buf) THEN [st |-> "Err", err |-> "UnexpectedEof", pos |-> Len(buf)]
    ELSE [st |-> "Ok", val |-> BeU32(buf, pos), pos |-> pos + 4]

\* (an empty destination always succeeds and leaves the cursor where it
\* was, also when the cursor is past the end of the buffer)
read_exact(buf, pos, n) ==
    IF n = 0 THEN [st |-> "Ok", val |-> <<>>, pos |-> pos]
    ELSE IF pos + n > Len(buf) THEN [st |-> "Err", err |-> "UnexpectedEof", pos |-> Len(buf)]
    ELSE [st |-> "Ok", val |-> Slice(buf, pos, pos + n), pos |-> pos + n]

\* unpack_domain_name_cur: the cursor moves only when the name decodes
unpack_domain_name_cur(buf, pos) ==
    LET moved(r) == IF r.st = "Ok" THEN [st |-> "Ok", val |-> r.name, pos |-> r.pos]
                    ELSE [st |-> "Err", err |-> r.err, pos |-> pos]
    IN  moved(unpack_domain_name(buf, pos))

\* skip_domain_name
skip_domain_name(buf, pos) ==
    LET moved(r) == IF r.st = "Some" THEN [ok |-> TRUE, pos |-> r.pos]
                    ELSE [ok |-> FALSE, pos |-> pos]
    IN  moved(__skip_domain_name(buf, pos))

----------------------------------------------------------------------------
(* Questions and record headers: decode *)

\* Question::unpack
Question_unpack(buf, pos) ==
    LET q_class(n, t, c) ==
            IF c.st # "Ok" THEN c
            ELSE [st |-> "Ok", pos |-> c.pos,
                  val |-> [name |-> n.val, q_type |-> t.val, q_class |-> c.val]]
        q_type(n, t) == IF t.st # "Ok" THEN t ELSE q_class(n, t, read_u16(buf, t.pos))
        name(n) == IF n.st # "Ok" THEN n ELSE q_type(n, read_u16(buf, n.pos))
    IN  name(unpack_domain_name_cur(buf, pos))

\* Question::skip
Question_skip(buf, pos) ==
    LET q_class(c) == IF c.st # "Ok" THEN c ELSE [st |-> "Ok", pos |-> c.pos]
        q_type(t) == IF t.st # "Ok" THEN t ELSE q_class(read_u16(buf, t.pos))
        name(n) == IF ~n.ok THEN [st |-> "Err", err |-> " skip failed", pos |-> pos]
                   ELSE q_type(read_u16(buf, n.pos))
    IN  name(skip_domain_name(buf, pos))

\* RecourseRecordHdr::unpack
RecourseRecordHdr_unpack(buf, pos) ==
    LET rd_length(n, t, c, l, d) ==
            IF d.st # "Ok" THEN d
            ELSE [st |-> "Ok", pos |-> d.pos,
                  val |-> [name |-> n.val, typ |-> t.val, class |-> c.val, ttl |-> l.val,
                           rd_length |-> d.val]]
        ttl(n, t, c, l) == IF l.st # "Ok" THEN l ELSE rd_length(n, t, c, l, read_u16(buf, l.pos))
        class(n, t, c) == IF c.st # "Ok" THEN c ELSE ttl(n, t, c, read_u32(buf, c.pos))
        typ(n, t) == IF t.st # "Ok" THEN t ELSE class(n, t, read_u16(buf, t.pos))
        name(n) == IF n.st # "Ok" THEN n ELSE typ(n, read_u16(buf, n.pos))
    IN  name(unpack_domain_name_cur(buf, pos))

----------------------------------------------------------------------------
(* EDNS0 options: decode *)

NSID_unpack(code, bs) == [st |-> "Ok", val |-> [kind |-> "Nid", nsid |-> hex_encode(bs)]]

LOCAL_unpack(code, bs) == [st |-> "Ok", val |-> [kind |-> "Local", code |-> code, data |-> bs]]

\* SubNet::unpack: BigEndian::read_u32 / read_u128 of &bs[4..] panic on a
\* slice shorter than 4 / 16 bytes
SubNet_unpack(code, bs) ==
    IF Len(bs) < 4 THEN [st |-> "Err", err |-> "BufTooSmall"]
    ELSE
    LET family == BeU16(bs, 0)
        source_netmask == bs[3]
        source_scope == bs[4]
        mk(a) == [st |-> "Ok",
                  val |-> [kind |-> "SubNet", family |-> family,
                           source_netmask |-> source_netmask,
                           source_scope |-> source_scope, address |-> a]]
    IN
    IF family = 0 THEN
        IF source_netmask # 0 THEN [st |-> "Err", err |-> "bad address family"]
        ELSE mk([v |-> 4, o |-> <<0, 0, 0, 0>>])
    ELSE IF family = 1 THEN
        IF source_netmask > 32 \/ source_scope > 32 THEN [st |-> "Err", err |-> "bad netmask"]
        ELSE IF Len(bs) - 4 < 4 THEN [st |-> "Panic", err |-> "read_u32 on a short slice"]
        ELSE mk([v |-> 4, o |-> Slice(bs, 4, 8)])
    ELSE IF family = 2 THEN
        IF source_netmask > 128 \/ source_scope > 128 THEN [st |-> "Err", err |-> "bad netmask"]
        ELSE IF Len(bs) - 4 < 16 THEN [st |-> "Panic", err |-> "read_u128 on a short slice"]
        ELSE mk([v |-> 6, o |-> Slice(bs, 4, 20)])
    ELSE [st |-> "Err", err |-> "bad address family"]

\* impl IEdns0 for EDNS0: unpack
EDNS0_unpack(code, bs) ==
    IF code = EDNS0NSID THEN NSID_unpack(code, bs)
    ELSE IF code = EDNS0SUBNET THEN SubNet_unpack(code, bs)
    ELSE LOCAL_unpack(code, bs)

----------------------------------------------------------------------------
(* Resource records: decode *)

\* A::unpack: four bytes, whatever rd_length says
A_unpack(h, buf, pos) ==
    LET r == read_exact(buf, pos, 4)
    IN  IF r.st # "Ok" THEN r
        ELSE [st |-> "Ok", pos |-> r.pos, val |-> [kind |-> "A", hdr |-> h, a |-> r.val]]

\* AAAA::unpack
AAAA_unpack(h, buf, pos) ==
    IF h.rd_length = 0
    THEN [st |-> "Ok", pos |-> pos, val |-> [kind |-> "AAAA", hdr |-> h, aaaa |-> Rep(16, 0)]]
    ELSE LET r == read_exact(buf, pos, 16)
         IN  IF r.st # "Ok" THEN r
             ELSE [st |-> "Ok", pos |-> r.pos,
                   val |-> [kind |-> "AAAA", hdr |-> h, aaaa |-> r.val]]

\* CNAME::unpack
CNAME_unpack(h, buf, pos) ==
    LET target(r) ==
            IF r.st # "Ok" THEN r
            ELSE [st |-> "Ok", pos |-> r.pos,
                  val |-> [kind |-> "CNAME", hdr |-> h, target |-> r.val]]
    IN  IF h.rd_length = 0
        THEN [st |-> "Ok", pos |-> pos, val |-> [kind |-> "CNAME", hdr |-> h, target |-> <<>>]]
        ELSE target(unpack_domain_name_cur(buf, pos))

\* the loop of Opt::unpack: the option header is read through the cursor (pos),
\* the option data is sliced at off; the loop ends when off reaches the end of
\* the message
RECURSIVE Opt_unpack_loop(_, _, _, _)
Opt_unpack_loop(buf, pos, off, options) ==
    LET data(opt_len, o, e0) ==
            IF e0.st # "Ok" THEN [st |-> e0.st, err |-> e0.err, pos |-> opt_len.pos]
            ELSE IF o + opt_len.val >= Len(buf)
            THEN [st |-> "Ok", pos |-> opt_len.pos, options |-> Append(options, e0.val)]
            ELSE Opt_unpack_loop(buf, opt_len.pos, o + opt_len.val, Append(options, e0.val))
        length(code, opt_len, o) ==
            IF opt_len.st # "Ok" THEN opt_len
            ELSE IF o + opt_len.val > Len(buf)
            THEN [st |-> "Panic", err |-> "slice index out of range", pos |-> opt_len.pos]
            ELSE data(opt_len, o, EDNS0_unpack(code.val, Slice(buf, o, o + opt_len.val)))
        option(code) ==
            IF code.st # "Ok" THEN code ELSE length(code, read_u16(buf, code.pos), off + 4)
    IN  option(read_u16(buf, pos))

\* Opt::unpack
Opt_unpack(h, buf, pos) ==
    LET done(r) ==
            IF r.st # "Ok" THEN r
            ELSE [st |-> "Ok", pos |-> r.pos,
                  val |-> [kind |-> "Opt", hdr |-> h, option |-> r.options]]
    IN  done(Opt_unpack_loop(buf, pos, pos, <<>>))

\* RFC3597::unpack
RFC3597_unpack(h, buf, pos) ==
    LET r == read_exact(buf, pos, h.rd_length)
    IN  IF r.st # "Ok" THEN r
        ELSE [st |-> "Ok", pos |-> r.pos,
              val |-> [kind |-> "Unknown", hdr |-> h, data |-> hex_encode(r.val)]]

\* impl RR for RecourseRecord: unpack
RecourseRecord_unpack(h, buf, pos) ==
    IF h.typ = TYPE_A THEN A_unpack(h, buf, pos)
    ELSE IF h.typ = TYPE_AAAA THEN AAAA_unpack(h, buf, pos)
    ELSE IF h.typ = TYPE_CNAME THEN CNAME_unpack(h, buf, pos)
    ELSE IF h.typ = TYPE_OPT THEN Opt_unpack(h, buf, pos)
    ELSE RFC3597_unpack(h, buf, pos)

----------------------------------------------------------------------------
(* Message orchestrator: decode *)

\* the two bounds checks of unpack_slice, made after the record header
rd_length_check(h, buf, pos) ==
    IF h.rd_length + pos > Len(buf) THEN "overflow header"
    ELSE IF pos + h.rd_length > Len(buf) THEN "bad rdlength"
    ELSE "ok"

\* the body of the loop of unpack_slice: one record header, the checks, the payload
unpack_slice_iter(buf, pos) ==
    LET payload(h, r) ==
            IF r.st # "Ok" THEN [st |-> r.st, err |-> r.err, pos |-> r.pos]
            ELSE [st |-> "Ok", pos |-> r.pos, val |-> r.val, hpos |-> h.pos]
        checks(h, c) ==
            IF c # "ok" THEN [st |-> "Err", err |-> c, pos |-> h.pos]
            ELSE payload(h, RecourseRecord_unpack(h.val, buf, h.pos))
        header(h) ==
            IF h.st # "Ok" THEN [st |-> "Err", err |-> h.err, pos |-> h.pos]
            ELSE checks(h, rd_length_check(h.val, buf, h.pos))
    IN  header(RecourseRecordHdr_unpack(buf, pos))

\* unpack_slice(l, slice, cur): the loop, with l records still to read
RECURSIVE unpack_slice_loop(_, _, _, _)
unpack_slice_loop(l, buf, pos, slice) ==
    LET push(r) == IF r.st # "Ok" THEN r
                   ELSE unpack_slice_loop(l - 1, buf, r.pos, Append(slice, r.val))
    IN  IF l = 0 THEN [st |-> "Ok", pos |-> pos, val |-> slice]
        ELSE push(unpack_slice_iter(buf, pos))

\* a reader that stops after the first record of a section
unpack_slice_first(l, buf, pos) == unpack_slice_loop(IF l > 1 THEN 1 ELSE l, buf, pos, <<>>)

unpack_slice(l, buf, pos) == unpack_slice_loop(l, buf, pos, <<>>)

\* the question loop of Msg::__unpack: the first failure ends the decode
RECURSIVE unpack_question_loop(_, _, _, _)
unpack_question_loop(l, buf, pos, qs) ==
    LET push(q) == IF q.st # "Ok" THEN [st |-> "Err", err |-> q.err, pos |-> q.pos]
                   ELSE unpack_question_loop(l - 1, buf, q.pos, Append(qs, q.val))
    IN  IF l = 0 THEN [st |-> "Ok", pos |-> pos, val |-> qs]
        ELSE push(Question_unpack(buf, pos))

\* Msg::__unpack
Msg__unpack(msg, hdr, buf, pos) ==
    LET reconcile(m1, opt) ==
            IF opt.st = "Some"
            THEN [st |-> "Ok",
                  val |-> [m1 EXCEPT !.hdr.response_code =
                                        BitOr(m1.hdr.response_code, extended_r_code(opt.val))]]
            ELSE [st |-> "Ok", val |-> m1]
        filled(m1) == reconcile(m1, is_edns0(m1))
        additional(q, an, ns, ar) ==
            IF ar.st # "Ok" THEN [st |-> ar.st, err |-> ar.err]
            ELSE filled([msg EXCEPT !.question = q.val, !.answer = an.val,
                                    !.authority = ns.val, !.additional = ar.val])
        authority(q, an, ns) ==
            IF ns.st # "Ok" THEN [st |-> ns.st, err |-> ns.err]
            ELSE additional(q, an, ns, unpack_slice(hdr.additional_count, buf, ns.pos))
        answer(q, an) ==
            IF an.st # "Ok" THEN [st |-> an.st, err |-> an.err]
            ELSE authority(q, an, unpack_slice(hdr.authority_count, buf, an.pos))
        question(q) ==
            IF q.st # "Ok" THEN [st |-> q.st, err |-> q.err]
            ELSE answer(q, unpack_slice(hdr.answer_count, buf, q.pos))
    IN  IF Len(buf) = pos
        THEN [st |-> "Ok",
              val |-> [msg EXCEPT !.question = <<>>, !.answer = <<>>, !.authority = <<>>,
                                  !.additional = <<>>]]
        ELSE question(unpack_question_loop(hdr.question_count, buf, pos, <<>>))

\* Msg::default()
DefaultMsg ==
    [hdr |-> DefaultHdr, question |-> <<>>, answer |-> <<>>, authority |-> <<>>,
     additional |-> <<>>]

\* Msg::unpack
Msg_unpack(buf) ==
    LET header(h) ==
            IF h.st # "Ok" THEN [st |-> "Err", err |-> h.err]
            ELSE Msg__unpack([DefaultMsg EXCEPT !.hdr = MsgHdrFromPkt(h.val)], h.val, buf, h.pos)
    IN  header(PktMsgHeader_unpack(buf, 0))

\* the loop of Msg::unpack_questions: a question that fails to decode is
\* dropped and the loop goes on from wherever the cursor was left
\* The l iterations are evaluated as two halves, one after the other.
RECURSIVE unpack_questions_loop(_, _, _, _)
unpack_questions_loop(l, buf, pos, qs) ==
    LET push(q) == IF q.st = "Ok" THEN [pos |-> q.pos, val |-> Append(qs, q.val)]
                   ELSE [pos |-> q.pos, val |-> qs]
    IN  IF l = 0 THEN [pos |-> pos, val |-> qs]
        ELSE IF l = 1 THEN push(Question_unpack(buf, pos))
        ELSE CHOOSE r \in {unpack_questions_loop(l - l \div 2, buf, x.pos, x.val) :
                              x \in {unpack_questions_loop(l \div 2, buf, pos, qs)}} : TRUE

\* Msg::unpack_questions
Msg_unpack_questions(buf) ==
    LET header(h) ==
            IF h.st # "Ok" THEN None
            ELSE [st |-> "Some",
                  val |-> unpack_questions_loop(h.val.question_count, buf, h.pos, <<>>).val]
    IN  header(PktMsgHeader_unpack(buf, 0))

\* Msg::skip_questions
RECURSIVE skip_questions_loop(_, _, _)
skip_questions_loop(l, buf, pos) ==
    LET next(q) == IF q.st # "Ok" THEN q ELSE skip_questions_loop(l - 1, buf, q.pos)
    IN  IF l = 0 THEN [st |-> "Ok", pos |-> pos] ELSE next(Question_skip(buf, pos))

Msg_skip_questions(buf) ==
    LET skipped(h, s) ==
            IF s.st # "Ok" THEN None ELSE [st |-> "Some", val |-> h.val, pos |-> s.pos]
        header(h) ==
            IF h.st # "Ok" THEN None
            ELSE skipped(h, skip_questions_loop(h.val.question_count, buf, h.pos))
    IN  header(PktMsgHeader_unpack(buf, 0))

\* Msg::unpack_answer
Msg_unpack_answer(buf) ==
    LET answers(r) ==
            IF r.st = "Ok" THEN [st |-> "Some", val |-> r.val]
            ELSE IF r.st = "Panic" THEN [st |-> "Panic", err |-> r.err]
            ELSE None
        skipped(s) ==
            IF s.st = "None" THEN None
            ELSE IF s.val.answer_count > 0
            THEN answers(unpack_slice(s.val.answer_count, buf, s.pos))
            ELSE [st |-> "Some", val |-> <<>>]
    IN  skipped(Msg_skip_questions(buf))

\* Msg::pick_question
Msg_pick_question(buf) ==
    LET first(o) ==
            IF o.st = "Some" /\ o.val # <<>> THEN [st |-> "Some", val |-> o.val[1].name]
            ELSE None
    IN  first(Msg_unpack_questions(buf))

----------------------------------------------------------------------------
(* Labels::unpack (read_string_recursive).  The recursion is an explicit   *)
(* stack of the callers' frames: each holds the caller's bytes_read and    *)
(* the position new_pos it restores on return.  bytes_read is a u16: an    *)
(* addition past U16_MAX panics in a build with overflow checks (debug)    *)
(* and wraps around in a build without them (release).                     *)

U16_MAX == 65535

\* the locals on entry; overflow_checks is the build profile of the crate
read_string_recursive_init(overflow_checks) ==
    [ret |-> "run", err |-> "", pos |-> 0, segments |-> <<>>, recursions |-> <<>>,
     stack |-> <<>>, bytes_read |-> 0, iters |-> 0, overflow_checks |-> overflow_checks]

InSeq(x, sq) == \E k \in 1..Len(sq) : sq[k] = x

\* string.push(c as char): the UTF-8 encoding of the code point U+0000..U+00FF
PushChar(c) == IF c < 128 THEN <<c>> ELSE <<192 + (c \div 64), 128 + (c % 64)>>

\* the String built from the bytes of one label
RECURSIVE PushChars(_)
PushChars(bs) ==
    IF bs = <<>> THEN <<>>
    ELSE IF Len(bs) = 1 THEN PushChar(bs[1])
    ELSE PushChars(Take(bs, Len(bs) \div 2)) \o PushChars(Drop(bs, Len(bs) \div 2))

\* one iteration of the loop of read_string_recursive in the innermost frame
read_string_recursive_loop(buf, d) ==
    LET n == [d EXCEPT !.iters = @ + 1]
        eof == [n EXCEPT !.ret = "err", !.err = "UnexpectedEof", !.pos = Len(buf)]
        overflow(p) == [n EXCEPT !.ret = "panic", !.err = "attempt to add with overflow",
                                 !.pos = p]
    IN
    IF d.pos >= Len(buf) THEN eof
    ELSE IF d.overflow_checks /\ d.bytes_read + 1 > U16_MAX THEN overflow(d.pos + 1)
    ELSE
    LET byte == buf[d.pos + 1]
        bytes_read == (d.bytes_read + 1) % (U16_MAX + 1)
    IN
    IF byte = 0 THEN
        \* break: this frame returns, and every caller restores its position and
        \* returns its own bytes_read in turn
        IF d.stack = <<>>
        THEN [n EXCEPT !.ret = "ok", !.pos = d.pos + 1, !.bytes_read = bytes_read]
        ELSE [n EXCEPT !.ret = "ok", !.pos = d.stack[1].new_pos,
                       !.bytes_read = d.stack[1].bytes_read, !.stack = <<>>]
    ELSE IF byte >= 192 THEN
        IF d.pos + 1 >= Len(buf) THEN eof
        ELSE IF d.overflow_checks /\ bytes_read + 1 > U16_MAX THEN overflow(d.pos + 2)
        ELSE
        LET offset == (byte - 192) * 256 + buf[d.pos + 2]
        IN  IF InSeq(offset, d.recursions)
            THEN [n EXCEPT !.ret = "err", !.err = "TooMuchRecursion", !.pos = d.pos + 2]
            ELSE IF Len(d.recursions) + 1 >= RECURSION_LIMIT
            THEN [n EXCEPT !.ret = "err", !.err = "TooMuchRecursion", !.pos = d.pos + 2,
                           !.recursions = Append(d.recursions, offset)]
            ELSE [n EXCEPT !.recursions = Append(d.recursions, offset),
                           !.stack = Append(d.stack,
                                            [bytes_read |-> (bytes_read + 1) % (U16_MAX + 1),
                                             new_pos |-> d.pos + 2]),
                           !.pos = offset, !.bytes_read = 0]
    ELSE
        \* the label is read byte by byte: the read comes before the addition, so
        \* of the end of the buffer and the overflow the earlier byte decides
        LET avail == Len(buf) - (d.pos + 1)
            room == U16_MAX - bytes_read
        IN  IF byte > avail /\ (~d.overflow_checks \/ avail <= room) THEN eof
            ELSE IF d.overflow_checks /\ byte > room THEN overflow(d.pos + 1 + room + 1)
            ELSE [n EXCEPT !.segments =
                               Append(d.segments,
                                      <<byte, PushChars(Slice(buf, d.pos + 1, d.pos + 1 + byte))>>),
                           !.pos = d.pos + 1 + byte,
                           !.bytes_read = (bytes_read + byte) % (U16_MAX + 1)]

RECURSIVE read_string_recursive_iter(_, _, _)
read_string_recursive_iter(buf, d, n) ==
    IF d.ret # "run" THEN d
    ELSE IF n = 1 THEN read_string_recursive_loop(buf, d)
    ELSE CHOOSE r \in {read_string_recursive_iter(buf, x, n - n \div 2) :
                          x \in {read_string_recursive_iter(buf, d, n \div 2)}} : TRUE

\* read_string_recursive run until the outermost call returns: each of the
\* at most RECURSION_LIMIT calls reads the buffer forwards
read_string_recursive_run(buf, d) ==
    read_string_recursive_iter(buf, d, RECURSION_LIMIT * (Len(buf) + 1))

\* Labels::unpack(buf): the labels and the bytes read by the outermost call
Labels_unpack(buf, overflow_checks) ==
    LET done(d) ==
            IF d.ret = "err" THEN [st |-> "Err", err |-> d.err]
            ELSE IF d.ret = "panic" THEN [st |-> "Panic", err |-> d.err]
            ELSE [st |-> "Ok", segments |-> d.segments, bytes_read |-> d.bytes_read]
    IN  done(read_string_recursive_run(buf, read_string_recursive_init(overflow_checks)))

----------------------------------------------------------------------------
(* Msg::unpack step by step: one step per header, question or record read  *)

Msg_unpack_init ==
    [pc |-> "header", res |-> "run", err |-> "", pos |-> 0, l |-> 0, hdr |-> None,
     msg |-> DefaultMsg]

\* a loop with nothing left to read falls through to the next one
RECURSIVE next_section(_)
next_section(d) ==
    IF d.l > 0 \/ d.pc \notin {"question", "answer", "authority", "additional"} THEN d
    ELSE IF d.pc = "question" THEN next_section([d EXCEPT !.pc = "answer", !.l = d.hdr.answer_count])
    ELSE IF d.pc = "answer"
        THEN next_section([d EXCEPT !.pc = "authority", !.l = d.hdr.authority_count])
    ELSE IF d.pc = "authority"
        THEN next_section([d EXCEPT !.pc = "additional", !.l = d.hdr.additional_count])
    ELSE [d EXCEPT !.pc = "reconcile"]

Msg_unpack_step(buf, d) ==
    LET header(h) ==
            IF h.st # "Ok" THEN [d EXCEPT !.pc = "done", !.res = "Err", !.err = h.err]
            ELSE IF Len(buf) = h.pos
            THEN [d EXCEPT !.pc = "done", !.res = "Ok", !.pos = h.pos, !.hdr = h.val,
                           !.msg = [DefaultMsg EXCEPT !.hdr = MsgHdrFromPkt(h.val)]]
            ELSE next_section([d EXCEPT !.pc = "question", !.pos = h.pos, !.hdr = h.val,
                                        !.l = h.val.question_count,
                                        !.msg = [DefaultMsg EXCEPT !.hdr = MsgHdrFromPkt(h.val)]])
        question(q) ==
            IF q.st # "Ok" THEN [d EXCEPT !.pc = "done", !.res = "Err", !.err = q.err]
            ELSE next_section([d EXCEPT !.l = @ - 1, !.pos = q.pos,
                                        !.msg.question = Append(@, q.val)])
        record(r) ==
            IF r.st # "Ok" THEN [d EXCEPT !.pc = "done", !.res = r.st, !.err = r.err]
            ELSE next_section([d EXCEPT !.l = @ - 1, !.pos = r.pos,
                                        !.msg[d.pc] = Append(@, r.val)])
        reconcile(opt) ==
            IF opt.st = "Some"
            THEN [d EXCEPT !.pc = "done", !.res = "Ok",
                           !.msg.hdr.response_code = BitOr(@, extended_r_code(opt.val))]
            ELSE [d EXCEPT !.pc = "done", !.res = "Ok"]
    IN  IF d.pc = "header" THEN header(PktMsgHeader_unpack(buf, 0))
        ELSE IF d.pc = "question" THEN question(Question_unpack(buf, d.pos))
        ELSE IF d.pc \in {"answer", "authority", "additional"}
        THEN record(unpack_slice_iter(buf, d.pos))
        ELSE IF d.pc = "reconcile" THEN reconcile(is_edns0(d.msg))
        ELSE d

----------------------------------------------------------------------------
(* Inputs *)

MaxQuestions == 2   \* questions per generated message
MaxRecs == 2        \* records per generated section
MaxOpts == 2        \* options per generated OPT record
MaxLabels == 2      \* labels on either side of a compression pointer
MaxBuf == 3         \* length of the exhaustively enumerated buffers
MaxSegments == 3    \* dot-separated segments of an encoded name

SeqsUpTo(S, n) == UNION {[1..k -> S] : k \in 0..n}

NameRoot == <<46>>                          \* "."
NameA == <<97, 46>>                         \* "a."
NameBA == <<98, 46, 97, 46>>                \* "b.a."
NameNoDot == <<97, 46, 98>>                 \* "a.b"
NameLong == Rep(256, 97) \o <<46>>          \* a 256-byte label

Hdr(name, typ, class, ttl, rd_length) ==
    [name |-> name, typ |-> typ, class |-> class, ttl |-> ttl, rd_length |-> rd_length]

Q(name) == [name |-> name, q_type |-> TYPE_A, q_class |-> CLASS_INET]

\* A::new, AAAA::new, CNAME::new
RecA(name, a) == [kind |-> "A", hdr |-> Hdr(name, TYPE_A, CLASS_INET, <<0, 120>>, 4), a |-> a]
RecAAAA(name, a) ==
    [kind |-> "AAAA", hdr |-> Hdr(name, TYPE_AAAA, CLASS_INET, <<0, 120>>, 16), aaaa |-> a]
RecCNAME(name, target) ==
    [kind |-> "CNAME",
     hdr |-> Hdr(name, TYPE_CNAME, CLASS_INET, <<0, 120>>, cal_domain_name_len(target) % 65536),
     target |-> target]
RecOpt(ttl, options) ==
    [kind |-> "Opt", hdr |-> Hdr(NameRoot, TYPE_OPT, 1350, ttl, 0), option |-> options]
RecUnknown(name, data, rd_length) ==
    [kind |-> "Unknown", hdr |-> Hdr(name, 99, CLASS_INET, <<0, 120>>, rd_length), data |-> data]

V4(a, b, c, d) == [v |-> 4, o |-> <<a, b, c, d>>]
Addr6 == <<32, 1, 13, 184>> \o Rep(11, 0) \o <<1>>      \* 2001:db8::1

OptLocal == [kind |-> "Local", code |-> 65001, data |-> <<7>>]
OptNid == [kind |-> "Nid", nsid |-> <<48, 97>>]                     \* "0a"
OptSubNet == [kind |-> "SubNet", family |-> 1, source_netmask |-> 24, source_scope |-> 0,
              address |-> V4(1, 2, 3, 4)]
OptSubNet0 == [kind |-> "SubNet", family |-> 1, source_netmask |-> 24, source_scope |-> 0,
               address |-> V4(1, 2, 3, 0)]
OptPool == {OptLocal, OptNid, OptSubNet, OptSubNet0}

MkMsg(h, q, an, ns, ar) ==
    [hdr |-> h, question |-> q, answer |-> an, authority |-> ns, additional |-> ar]

BOOL == {FALSE, TRUE}

\* every combination of the eight flags
FlagHdrs ==
    {[DefaultHdr EXCEPT !.id = 4660, !.response = f[1], !.authoritative = f[2],
                         !.truncated = f[3], !.recursion_desired = f[4],
                         !.recursion_available = f[5], !.zero = f[6],
                         !.authenticated_data = f[7], !.checking_disabled = f[8]]
        : f \in [1..8 -> BOOL]}

RCodes == {0, 1, 15, 16, 291, 4095, 4096, 65535}

\* every opcode with every response-code class
CodeHdrs ==
    {[DefaultHdr EXCEPT !.id = 65535, !.op_code = o, !.response_code = r, !.response = TRUE]
        : o \in 0..15, r \in RCodes}

\* the messages that are also sent damaged
TamperMsgs ==
    { MkMsg([DefaultHdr EXCEPT !.id = 1], <<Q(NameA)>>,
            <<RecA(NameA, <<1, 2, 3, 4>>), RecCNAME(NameA, NameBA)>>, <<>>, <<>>),
      MkMsg([DefaultHdr EXCEPT !.id = 2], <<Q(NameA)>>, <<>>,
            <<RecA(NameA, <<1, 2, 3, 4>>)>>, <<RecOpt(<<0, 0>>, <<OptSubNet>>)>>),
      MkMsg([DefaultHdr EXCEPT !.id = 3], <<Q(NameA), Q(NameBA)>>,
            <<RecUnknown(NameA, <<48, 97>>, 1)>>, <<RecAAAA(NameRoot, Addr6)>>,
            <<RecOpt(<<0, 32768>>, <<OptLocal>>)>>) }

Msgs ==
    {MkMsg(h, q, <<>>, <<>>, <<>>) : h \in FlagHdrs, q \in {<<>>, <<Q(NameA)>>}}
    \cup {MkMsg(h, <<>>, <<>>, ns, ar) :
            h \in CodeHdrs,
            ns \in {<<>>, <<RecA(NameA, <<1, 2, 3, 4>>)>>, <<RecOpt(<<0, 0>>, <<OptLocal>>)>>},
            ar \in {<<>>, <<RecOpt(<<0, 0>>, <<>>)>>, <<RecOpt(<<4660, 32773>>, <<OptLocal>>)>>,
                    <<RecA(NameA, <<1, 2, 3, 4>>)>>}}
    \cup {MkMsg([DefaultHdr EXCEPT !.id = 7, !.response_code = r],
                Rep(nq, Q(NameA)),
                Rep(na, RecA(NameBA, <<5, 6, 7, 8>>)),
                Rep(nn, RecCNAME(NameA, NameBA)),
                Rep(nr, RecA(NameA, <<1, 2, 3, 4>>)) \o o) :
            r \in {0, 16}, nq \in 0..MaxQuestions, na \in 0..MaxRecs, nn \in 0..MaxRecs,
            nr \in 0..(MaxRecs - 1), o \in {<<>>, <<RecOpt(<<0, 0>>, <<OptLocal>>)>>}}
    \cup {MkMsg([DefaultHdr EXCEPT !.id = 8, !.response_code = r], <<Q(NameA)>>, <<>>, <<>>,
                <<RecOpt(<<43981, 32773>>, <<OptNid>>), RecA(NameA, <<1, 2, 3, 4>>),
                  RecOpt(t, <<>>)>>) :
            r \in RCodes, t \in {<<0, 0>>, <<65535, 65535>>}}
    \cup {MkMsg([DefaultHdr EXCEPT !.response_code = r], <<Q(n)>>, <<>>, <<>>, <<>>) :
            r \in {0, 16, 4096}, n \in {NameNoDot, NameLong}}
    \cup TamperMsgs

\* the response captured in test_unpack
Captured ==
    <<0, 12, 129, 128, 0, 1, 0, 3, 0, 0, 0, 0, 3, 119, 119, 119, 5, 98, 97, 105, 100, 117,
      3, 99, 111, 109, 0, 0, 1, 0, 1, 192, 12, 0, 5, 0, 1, 0, 0, 0, 189, 0, 15, 3, 119, 119,
      119, 1, 97, 6, 115, 104, 105, 102, 101, 110, 192, 22, 192, 43, 0, 1, 0, 1, 0, 0, 0,
      170, 0, 4, 14, 215, 177, 38, 192, 43, 0, 1, 0, 1, 0, 0, 0, 170, 0, 4, 14, 215, 177, 39>>

\* a header with the given counts and no flags
RawHeader(qd, an, ns, ar) ==
    <<0, 9, 0, 0>> \o U16Bytes(qd) \o U16Bytes(an) \o U16Bytes(ns) \o U16Bytes(ar)

\* an OPT record on the wire: root name, type 41, class 1350, ttl, rdlength, rdata
RawOpt(ttl, rdlength, rdata) ==
    <<0>> \o U16Bytes(TYPE_OPT) \o U16Bytes(1350) \o U32Bytes(ttl) \o U16Bytes(rdlength) \o rdata

\* a record of type typ on the wire with owner name "a."
RawRec(typ, rdlength, rdata) ==
    <<1, 97, 0>> \o U16Bytes(typ) \o U16Bytes(CLASS_INET) \o U32Bytes(<<0, 60>>)
        \o U16Bytes(rdlength) \o rdata

RawQuestion == <<1, 97, 0, 0, 1, 0, 1>>

\* hand-made datagrams, well-formed and malformed
CraftedWires ==
    { Captured,
      \* an OPT record in the additional section, extended code in ttl bits 24-31
      RawHeader(0, 0, 0, 1) \o RawOpt(<<256, 0>>, 4, <<253, 233, 0, 0>>),
      RawHeader(0, 0, 0, 1) \o RawOpt(<<4660, 32773>>, 5, <<253, 233, 0, 1, 7>>),
      \* an option that declares more data than the message holds
      RawHeader(0, 0, 0, 1) \o RawOpt(<<0, 0>>, 4, <<0, 3, 0, 9>>),
      \* Client-Subnet options of family 1 and 2 with too few address bytes
      RawHeader(0, 0, 0, 1) \o RawOpt(<<0, 0>>, 10, <<0, 8, 0, 6, 0, 1, 24, 0, 1, 2>>),
      RawHeader(0, 0, 0, 1) \o RawOpt(<<0, 0>>, 12, <<0, 8, 0, 8, 0, 2, 64, 0, 32, 1, 13, 184>>),
      \* an OPT record with no option
      RawHeader(0, 0, 0, 1) \o RawOpt(<<0, 0>>, 0, <<>>),
      \* question counts the buffer cannot satisfy
      RawHeader(1, 0, 0, 0),
      RawHeader(2, 0, 0, 0) \o RawQuestion,
      RawHeader(2, 0, 0, 0) \o RawQuestion \o <<1, 97, 0, 0>>,
      RawHeader(1, 0, 0, 0) \o <<64, 0, 0, 1, 0, 1>>,
      RawHeader(1, 0, 0, 0) \o <<5, 97, 0, 0, 1>>,
      \* records whose rdlength overruns the buffer
      RawHeader(0, 1, 0, 0) \o RawRec(TYPE_A, 5, <<1, 2, 3, 4>>),
      RawHeader(0, 1, 0, 0) \o RawRec(99, 3, <<1, 2>>),
      RawHeader(1, 2, 0, 0) \o RawQuestion \o RawRec(TYPE_A, 4, <<1, 2, 3, 4>>)
          \o RawRec(TYPE_CNAME, 65535, <<192, 12>>),
      \* records that decode
      RawHeader(1, 2, 0, 0) \o RawQuestion \o RawRec(TYPE_A, 4, <<1, 2, 3, 4>>)
          \o RawRec(TYPE_CNAME, 2, <<192, 12>>),
      RawHeader(0, 1, 1, 1) \o RawRec(TYPE_AAAA, 0, <<>>) \o RawRec(99, 2, <<1, 2>>)
          \o RawOpt(<<0, 0>>, 5, <<0, 3, 0, 1, 10>>) }

TamperBytes == {0, 1, 4, 64, 192, 255}

----------------------------------------------------------------------------
(* The message codec driven end to end: a message is built, packed, sent   *)
(* (possibly damaged on the way), and decoded.                             *)

Init ==
    \/ /\ phase = "built"
       /\ m \in Msgs
       /\ wire = <<>> /\ packed = None /\ out = None /\ outq = None
       /\ rr = None /\ rrout = None /\ dec = "none" /\ nstart = 0 /\ nexp = <<>>
       /\ ud = None /\ sk = None /\ lb = None /\ md = None /\ arg = None /\ ret = None
    \/ /\ phase = "received"
       /\ wire \in CraftedWires
       /\ m = None /\ packed = None /\ out = None /\ outq = None
       /\ rr = None /\ rrout = None /\ dec = "none" /\ nstart = 0 /\ nexp = <<>>
       /\ ud = None /\ sk = None /\ lb = None /\ md = None /\ arg = None /\ ret = None

\* msg.pack(&mut buf) on an empty buffer
Pack ==
    /\ phase = "built"
    /\ packed' = Msg_pack(m, <<>>)
    /\ wire' = packed'.buf
    /\ phase' = IF packed'.st = "Ok" THEN "packed" ELSE "rejected"
    /\ UNCHANGED <<m, out, outq, rr, rrout, dec, nstart, nexp, ud, sk, lb, md, arg, ret>>

\* the datagram arrives cut short
Truncate ==
    /\ phase = "packed"
    /\ m \in TamperMsgs
    /\ \E k \in 0..(Len(wire) - 1) : wire' = Take(wire, k)
    /\ phase' = "received"
    /\ UNCHANGED <<m, packed, out, outq, rr, rrout, dec, nstart, nexp, ud, sk, lb, md, arg, ret>>

\* the datagram arrives with one byte changed; the high bytes of the four
\* counts are left alone, so that the section loops stay short
Tamper ==
    /\ phase = "packed"
    /\ m \in TamperMsgs
    /\ \E i \in 1..Len(wire), v \in TamperBytes :
          /\ i \notin {5, 7, 9, 11}
          /\ wire[i] # v
          /\ wire' = [wire EXCEPT ![i] = v]
    /\ phase' = "received"
    /\ UNCHANGED <<m, packed, out, outq, rr, rrout, dec, nstart, nexp, ud, sk, lb, md, arg, ret>>

\* Msg::unpack(&wire)
Unpack ==
    /\ phase \in {"packed", "received"}
    /\ out' = Msg_unpack(wire)
    /\ phase' = "unpacked"
    /\ UNCHANGED <<m, wire, packed, outq, rr, rrout, dec, nstart, nexp, ud, sk, lb, md, arg, ret>>

\* Msg::unpack_questions(&wire)
UnpackQuestions ==
    /\ phase = "unpacked"
    /\ outq' = Msg_unpack_questions(wire)
    /\ phase' = "questions"
    /\ UNCHANGED <<m, wire, packed, out, rr, rrout, dec, nstart, nexp, ud, sk, lb, md, arg, ret>>

\* Msg::unpack_answer(&wire)
UnpackAnswer ==
    /\ phase = "questions"
    /\ ret' = Msg_unpack_answer(wire)
    /\ phase' = "answers"
    /\ UNCHANGED <<m, wire, packed, out, outq, rr, rrout, dec, nstart, nexp, ud, sk, lb, md, arg>>

Next == Pack \/ Truncate \/ Tamper \/ Unpack \/ UnpackQuestions \/ UnpackAnswer

Spec == Init /\ [][Next]_vars

----------------------------------------------------------------------------
(* One record written as Msg::pack writes it and read back as unpack_slice *)
(* reads it.                                                               *)

Records ==
    {RecA(n, a) : n \in {NameRoot, NameA, NameBA}, a \in {<<1, 2, 3, 4>>, <<0, 0, 0, 0>>}}
    \cup {RecAAAA(n, a) : n \in {NameA, NameBA}, a \in {Addr6, Rep(16, 0)}}
    \cup {RecCNAME(n, t) : n \in {NameA, NameBA}, t \in {NameRoot, NameA, NameBA}}
    \cup {RecOpt(t, o) : t \in {<<0, 0>>, <<4660, 32773>>}, o \in SeqsUpTo(OptPool, MaxOpts)}
    \cup {RecUnknown(NameA, d, Len(d) \div 2) : d \in {<<>>, <<48, 97>>, <<102, 102, 49, 48>>}}


InitRecord ==
    /\ phase = "record"
    /\ rr \in Records
    /\ m = None /\ wire = <<>> /\ packed = None /\ out = None /\ outq = None
    /\ rrout = None /\ dec = "none" /\ nstart = 0 /\ nexp = <<>>
    /\ ud = None /\ sk = None /\ lb = None /\ md = None /\ arg = None /\ ret = None

\* the record written as a member of the answer or authority list
RecordPack ==
    /\ phase = "record"
    /\ packed' = pack_records(<<rr>>, 1, <<>>)
    /\ wire' = packed'.buf
    /\ phase' = "record packed"
    /\ UNCHANGED <<m, out, outq, rr, rrout, dec, nstart, nexp, ud, sk, lb, md, arg, ret>>

\* the record written as a member of the additional list of a message whose
\* response code is RCODE_SUCCESS
RecordPackAdditional ==
    /\ phase = "record"
    /\ packed' = pack_additional(<<rr>>, 1, RCODE_SUCCESS, <<>>)
    /\ wire' = packed'.buf
    /\ phase' = "record packed"
    /\ UNCHANGED <<m, out, outq, rr, rrout, dec, nstart, nexp, ud, sk, lb, md, arg, ret>>

\* one pass of the loop of unpack_slice over the bytes of the record
RecordUnpack ==
    /\ phase = "record packed"
    /\ packed.st = "Ok"
    /\ rrout' = unpack_slice_iter(wire, 0)
    /\ phase' = "record unpacked"
    /\ UNCHANGED <<m, wire, packed, out, outq, rr, dec, nstart, nexp, ud, sk, lb, md, arg, ret>>

NextRecord == RecordPack \/ RecordPackAdditional \/ RecordUnpack

SpecRecord == InitRecord /\ [][NextRecord]_vars

\* the payload fields of a record
Payload(r) ==
    IF r.kind = "A" THEN r.a
    ELSE IF r.kind = "AAAA" THEN r.aaaa
    ELSE IF r.kind = "CNAME" THEN r.target
    ELSE IF r.kind = "Opt" THEN r.option
    ELSE r.data

\* C5: a record of variant A, AAAA, CNAME, OPT or Unknown, written as
\* Msg::pack writes it, decodes with RecourseRecordHdr::unpack followed by
\* RecourseRecord::unpack to a record of the same variant with equal name,
\* type, class, ttl and payload.
C5_RecordRoundTrip ==
    phase = "record unpacked" =>
        /\ rrout.st = "Ok"
        /\ rrout.val.kind = rr.kind
        /\ rrout.val.hdr.name = rr.hdr.name
        /\ rrout.val.hdr.typ = rr.hdr.typ
        /\ rrout.val.hdr.class = rr.hdr.class
        /\ rrout.val.hdr.ttl = rr.hdr.ttl
        /\ Payload(rrout.val) = Payload(rr)

----------------------------------------------------------------------------
(* The decoders stepped one loop iteration at a time over a received       *)
(* buffer: unpack_domain_name, __skip_domain_name, read_string_recursive   *)
(* and Msg::unpack.                                                        *)

\* labels of the generated names: plain, with a special character, with a
\* non-printable byte
LabelPool == {<<97>>, <<98, 46>>, <<7>>}

\* the wire form of a list of labels, without terminator
RECURSIVE LabelsWire(_)
LabelsWire(ls) ==
    IF ls = <<>> THEN <<>> ELSE (<<Len(Head(ls))>> \o Head(ls)) \o LabelsWire(Tail(ls))

\* padding, the remaining labels and their terminator, then the literal
\* labels and a pointer back to the remaining labels
BackwardCase(pad, rest, lits) ==
    [wire |-> Rep(pad, 255) \o LabelsWire(rest) \o <<0>> \o LabelsWire(lits) \o <<192, pad>>,
     nstart |-> pad + Len(LabelsWire(rest)) + 1,
     nexp |-> LabelsWire(lits) \o LabelsWire(rest) \o <<0>>]

\* the literal labels at offset 0, a pointer over two bytes of padding to
\* the remaining labels
ForwardCase(rest, lits) ==
    [wire |-> LabelsWire(lits) \o <<192, Len(LabelsWire(lits)) + 4, 255, 255>>
                \o LabelsWire(rest) \o <<0>>,
     nstart |-> 0,
     nexp |-> LabelsWire(lits) \o LabelsWire(rest) \o <<0>>]

\* the names of the captured response: offset, and the pointer-free encoding
CapturedCase(off, exp) == [wire |-> Captured, nstart |-> off, nexp |-> exp]

CapturedCases ==
    { CapturedCase(12, Slice(Captured, 12, 27)),
      CapturedCase(31, Slice(Captured, 12, 27)),
      CapturedCase(43, Slice(Captured, 43, 56) \o Slice(Captured, 22, 27)),
      CapturedCase(58, Slice(Captured, 43, 56) \o Slice(Captured, 22, 27)),
      CapturedCase(74, Slice(Captured, 43, 56) \o Slice(Captured, 22, 27)) }

\* every buffer of at most MaxBuf bytes over terminator, lengths, pointer and
\* reserved prefixes, read from every offset
SmallBytes == {0, 1, 2, 64, 192}

SmallCases ==
    {[wire |-> b, nstart |-> k, nexp |-> <<>>] :
        <<b, k>> \in {x \in SeqsUpTo(SmallBytes, MaxBuf) \X (0..MaxBuf) : x[2] <= Len(x[1])}}

\* a chain of n pointers, each to the next, ending in a pointer to itself (a
\* cycle) or in the root name
PointerChain(n, cyclic) ==
    [wire |-> [i \in 1..(2 * n + 2) |->
                 IF i = 2 * n + 2 THEN (IF cyclic THEN 2 * n ELSE 0)
                 ELSE IF i = 2 * n + 1 THEN (IF cyclic THEN 192 ELSE 0)
                 ELSE IF i % 2 = 1 THEN 192 ELSE i],
     nstart |-> 0, nexp |-> <<>>]

ChainLengths == {1, 2, 6, 7, 8, 9}

NameCases ==
    {BackwardCase(pad, rest, lits) :
        pad \in {0, 1}, rest \in SeqsUpTo(LabelPool, MaxLabels),
        lits \in SeqsUpTo(LabelPool, MaxLabels)}
    \cup {ForwardCase(rest, lits) :
        rest \in SeqsUpTo(LabelPool, MaxLabels), lits \in SeqsUpTo(LabelPool, MaxLabels)}
    \cup CapturedCases
    \cup SmallCases
    \cup {PointerChain(n, c) : n \in ChainLengths, c \in BOOL}
    \cup {[wire |-> Rep(64, 97) \o <<0>>, nstart |-> 0, nexp |-> <<>>]}
    \cup {[wire |-> <<1, 97, c>> \o Rep(c, 98) \o <<0>>, nstart |-> 0, nexp |-> <<>>] :
            c \in {64, 128, 191}}
    \cup {[wire |-> LabelsWire(<<Rep(63, 97), Rep(63, 98), Rep(63, 99), Rep(k, 100)>>) \o <<0>>,
           nstart |-> 0, nexp |-> <<>>] : k \in {62, 63}}

\* the datagrams handed to Msg::unpack
MsgWires ==
    CraftedWires
    \cup {Msg_pack(mm, <<>>).buf : mm \in TamperMsgs}
    \cup UNION {{Take(Msg_pack(mm, <<>>).buf, k) : k \in 0..Len(Msg_pack(mm, <<>>).buf)} :
                  mm \in TamperMsgs}

InitDecode ==
    /\ phase = "decode"
    /\ m = None /\ packed = None /\ out = None /\ outq = None /\ rr = None /\ rrout = None
    /\ \/ /\ dec \in {"unpack", "skip"}
          /\ \E c \in NameCases : wire = c.wire /\ nstart = c.nstart /\ nexp = c.nexp
       \/ /\ dec = "labels"
          /\ \E c \in NameCases : c.nstart = 0 /\ wire = c.wire /\ nstart = 0 /\ nexp = c.nexp
       \/ /\ dec = "msg"
          /\ wire \in MsgWires /\ nstart = 0 /\ nexp = <<>>
    /\ ud = unpack_domain_name_init(nstart)
    /\ sk = skip_domain_name_init(nstart)
    \* Labels::unpack alone depends on the build profile
    /\ \E oc \in (IF dec = "labels" THEN BOOLEAN ELSE {FALSE}) :
          lb = read_string_recursive_init(oc)
    /\ md = Msg_unpack_init
    /\ arg = None /\ ret = None

\* one iteration of the loop of unpack_domain_name
UnpackNameStep ==
    /\ dec = "unpack" /\ ud.ret = "run"
    /\ ud' = unpack_domain_name_loop(wire, ud)
    /\ UNCHANGED <<phase, m, wire, packed, out, outq, rr, rrout, dec, nstart, nexp, sk, lb, md, arg, ret>>

\* one iteration of the loop of __skip_domain_name
SkipNameStep ==
    /\ dec = "skip" /\ sk.ret = "run"
    /\ sk' = skip_domain_name_loop(wire, sk)
    /\ UNCHANGED <<phase, m, wire, packed, out, outq, rr, rrout, dec, nstart, nexp, ud, lb, md, arg, ret>>

\* one iteration of the loop of read_string_recursive
LabelsStep ==
    /\ dec = "labels" /\ lb.ret = "run"
    /\ lb' = read_string_recursive_loop(wire, lb)
    /\ UNCHANGED <<phase, m, wire, packed, out, outq, rr, rrout, dec, nstart, nexp, ud, sk, md, arg, ret>>

\* Msg::unpack reads the header, one question or one record, or reconciles
\* the response code
MsgUnpackStep ==
    /\ dec = "msg" /\ md.pc # "done"
    /\ md' = Msg_unpack_step(wire, md)
    /\ UNCHANGED <<phase, m, wire, packed, out, outq, rr, rrout, dec, nstart, nexp, ud, sk, lb, arg, ret>>

NextDecode == UnpackNameStep \/ SkipNameStep \/ LabelsStep \/ MsgUnpackStep

SpecDecode == InitDecode /\ [][NextDecode]_vars

----------------------------------------------------------------------------
(* Single calls: one function of the crate applied once to arguments drawn *)
(* from a pool.                                                            *)

\* the variables of the other drivers, at rest
Idle ==
    /\ m = None /\ wire = <<>> /\ packed = None /\ out = None /\ outq = None
    /\ rr = None /\ rrout = None /\ dec = "none" /\ nstart = 0 /\ nexp = <<>>
    /\ ud = None /\ sk = None /\ lb = None /\ md = None

\* segments of the names to encode: empty, short, 255 and 256 bytes long
SegmentPool == {<<>>, <<97>>, <<98, 99>>, Rep(255, 120), Rep(256, 121)}

\* the segments joined by dots
RECURSIVE JoinDot(_)
JoinDot(segs) ==
    IF Len(segs) = 0 THEN <<>>
    ELSE IF Len(segs) = 1 THEN segs[1]
    ELSE (segs[1] \o <<46>>) \o JoinDot(Tail(segs))

\* names given by their segments, between one and MaxSegments of them
NameArgs ==
    {[fn |-> "name", segs |-> sg, input |-> JoinDot(sg), buf |-> <<>>] :
        sg \in SeqsUpTo(SegmentPool, MaxSegments) \ {<<>>}}

\* names whose labels lie around the lengths 63/64 and 191/192, where the
\* top two bits of the length byte change
BoundarySegments == {<<97>>, Rep(63, 100), Rep(64, 101), Rep(191, 102), Rep(192, 103)}

BoundaryNameArgs ==
    {[fn |-> "name", segs |-> sg, input |-> JoinDot(sg) \o dot, buf |-> <<>>] :
        sg \in SeqsUpTo(BoundarySegments, 2) \ {<<>>}, dot \in {<<>>, <<46>>}}

V6(o) == [v |-> 6, o |-> o]

\* Client-Subnet options: every family class, netmasks around the limits,
\* IPv4, IPv4-mapped and plain IPv6 addresses
SubNetArgs ==
    {[fn |-> "subnet", buf |-> <<>>,
      e |-> [kind |-> "SubNet", family |-> f, source_netmask |-> n, source_scope |-> 0,
             address |-> a]] :
        f \in {0, 1, 2, 3},
        n \in {0, 1, 9, 24, 32, 33, 127, 128, 129, 255},
        a \in {V4(1, 2, 3, 4), V4(255, 255, 255, 255), V6(to_ipv6_mapped(<<1, 2, 3, 4>>)),
               V6(Addr6), V6(Rep(16, 255))}}

\* requests: a standard query or another opcode, with the two flags either
\* way and zero to MaxQuestions questions
Requests ==
    {MkMsg([DefaultHdr EXCEPT !.id = 4660, !.op_code = o, !.recursion_desired = rd,
                              !.checking_disabled = cd, !.response_code = 3,
                              !.truncated = TRUE],
           SubSeq(<<Q(NameA), Q(NameBA), Q(NameRoot)>>, 1, nq), <<>>, <<>>, <<>>) :
        o \in {OPCODE_QUERY, 2}, rd \in BOOL, cd \in BOOL, nq \in 0..MaxQuestions}

\* messages about to become replies: fresh, or holding flags, questions and
\* records of their own
Responses ==
    { DefaultMsg,
      MkMsg([DefaultHdr EXCEPT !.id = 9, !.op_code = 5, !.response_code = 5,
                               !.authoritative = TRUE, !.recursion_desired = TRUE,
                               !.recursion_available = TRUE, !.zero = TRUE],
            <<Q(NameBA), Q(NameBA)>>, <<RecA(NameA, <<1, 2, 3, 4>>)>>, <<>>,
            <<RecOpt(<<0, 0>>, <<OptLocal>>)>>),
      MkMsg([DefaultHdr EXCEPT !.response = TRUE, !.truncated = TRUE,
                               !.authenticated_data = TRUE, !.checking_disabled = TRUE],
            <<Q(NameRoot)>>, <<>>, <<RecCNAME(NameA, NameBA)>>, <<>>) }

ReplyArgs ==
    {[fn |-> "reply", self |-> s, request |-> r, response_code |-> c] :
        s \in Responses, r \in Requests, c \in {RCODE_SUCCESS, 3}}

\* logical headers: every flag combination, and every opcode with response
\* codes inside and outside the 4 bits of the flags word
HdrArgs ==
    {[fn |-> "hdr", hdr |-> h] :
        h \in FlagHdrs \cup {x \in CodeHdrs : x.response_code \in {0, 1, 15, 16, 291}}}

\* wire headers, and how many bytes of the packed header reach the reader
\* (one more than 12: a byte follows the header)
PktArgs ==
    {[fn |-> "pkt", avail |-> k,
      pkt |-> [id |-> i, bits |-> b, question_count |-> c[1], answer_count |-> c[2],
               authority_count |-> c[3], additional_count |-> c[4]]] :
        i \in {0, 4660}, b \in {0, 33152, 30735, 65535},
        c \in {<<0, 0, 0, 0>>, <<1, 2, 3, 4>>, <<258, 0, 65535, 1>>}, k \in {0, 1, 11, 12, 13}}

\* one option on the wire: code, length, data
RawOption(o) == U16Bytes(o.code) \o U16Bytes(Len(o.data)) \o o.data

RECURSIVE RawOptions(_, _)
RawOptions(opts, i) ==
    IF i > Len(opts) THEN <<>> ELSE RawOption(opts[i]) \o RawOptions(opts, i + 1)

WireOptions ==
    { [code |-> 65001, data |-> <<7>>], [code |-> 65002, data |-> <<>>],
      [code |-> EDNS0NSID, data |-> <<48, 97>>] }

\* well-formed OPT records whose rdlength spans exactly their options, alone
\* in the buffer or followed by another record
OptArgs ==
    {[fn |-> "opt", opts |-> o, tail |-> t,
      buf |-> RawOpt(<<0, 0>>, Len(RawOptions(o, 1)), RawOptions(o, 1)) \o t] :
        o \in SeqsUpTo(WireOptions, MaxOpts),
        t \in {<<>>, RawRec(TYPE_A, 4, <<1, 2, 3, 4>>)}}

\* names on the wire around the limit: lits, then rest, written in one piece
\* or as lits and a pointer back to rest; total is the length of the
\* pointer-free encoding, terminator included
LongLabels ==
    {<<Rep(63, 97), Rep(k, 98)>> : k \in {1, 60, 61, 62, 63}} \cup {<<Rep(1, 97)>>, <<>>}

WireNameArgs ==
    {[fn |-> "wire name", buf |-> LabelsWire(lits \o rest) \o <<0>>, off |-> 0,
      total |-> Len(LabelsWire(lits \o rest)) + 1] :
        lits \in LongLabels, rest \in {<<>>, <<Rep(63, 99), Rep(63, 100)>>}}
    \cup {[fn |-> "wire name", buf |-> BackwardCase(0, rest, lits).wire,
           off |-> BackwardCase(0, rest, lits).nstart,
           total |-> Len(LabelsWire(lits \o rest)) + 1] :
        lits \in LongLabels, rest \in {<<Rep(63, 99), Rep(63, 100)>>}}

\* OPT records over ttl values with every field empty, full and mixed, the
\* codes handed to set_extended_r_code and the slices handed to set_do
TtlPool == {0, 1, 4660, 255, 65280, 65535} \X {0, 5, 32767, 32768, 32773, 65535}

AccessorArgs ==
    {[fn |-> "opt fields", opt |-> [RecOpt(t, <<>>) EXCEPT !.hdr.class = c], v |-> v] :
        t \in TtlPool, c \in {0, 1350}, v \in {0, 15, 16, 291, 4095}}

SetDoArgs ==
    {[fn |-> "set_do", opt |-> RecOpt(t, <<>>), d |-> d] :
        t \in TtlPool, d \in SeqsUpTo(BOOL, 2)}

\* records on the wire, each with an rdlength that spans exactly its rdata:
\* typ, rdlength and the bytes
WireRecords ==
    { [typ |-> TYPE_A, rd_length |-> 4, bytes |-> RawRec(TYPE_A, 4, <<1, 2, 3, 4>>)],
      [typ |-> TYPE_A, rd_length |-> 6, bytes |-> RawRec(TYPE_A, 6, <<1, 2, 3, 4, 5, 6>>)],
      [typ |-> TYPE_A, rd_length |-> 0, bytes |-> RawRec(TYPE_A, 0, <<>>)],
      [typ |-> TYPE_AAAA, rd_length |-> 16, bytes |-> RawRec(TYPE_AAAA, 16, Addr6)],
      [typ |-> TYPE_AAAA, rd_length |-> 0, bytes |-> RawRec(TYPE_AAAA, 0, <<>>)],
      [typ |-> TYPE_CNAME, rd_length |-> 3, bytes |-> RawRec(TYPE_CNAME, 3, <<1, 98, 0>>)],
      [typ |-> TYPE_CNAME, rd_length |-> 5, bytes |-> RawRec(TYPE_CNAME, 5, <<1, 98, 0, 0, 0>>)],
      [typ |-> 99, rd_length |-> 2, bytes |-> RawRec(99, 2, <<1, 2>>)],
      [typ |-> TYPE_OPT, rd_length |-> 4, bytes |-> RawOpt(<<0, 0>>, 4, <<253, 233, 0, 0>>)] }

RECURSIVE Concat(_, _)
Concat(parts, i) == IF i > Len(parts) THEN <<>> ELSE parts[i].bytes \o Concat(parts, i + 1)

SectionArgs ==
    {[fn |-> "section", recs |-> r, buf |-> Concat(r, 1)] :
        r \in SeqsUpTo(WireRecords, MaxRecs) \ {<<>>}}

\* the values id() can draw: every u16
IdPool == 0..65535

QuestionArgs ==
    {[fn |-> "question", self |-> DefaultMsg, name |-> NameRoot, q_type |-> TYPE_A],
     [fn |-> "question", self |-> DefaultMsg, name |-> NameA, q_type |-> TYPE_AAAA],
     [fn |-> "question", self |-> CHOOSE r \in Responses : Len(r.question) = 2,
      name |-> NameBA, q_type |-> 255]}

SetHdrArgs ==
    {[fn |-> "set_hdr", self |-> s,
      pkt |-> [id |-> i, bits |-> b, question_count |-> 3, answer_count |-> 2,
               authority_count |-> 1, additional_count |-> 0]] :
        s \in Responses, i \in {0, 4660}, b \in {0, 33155, 30735, 65535}}

UdpSizeArgs ==
    {[fn |-> "udp_size", opt |-> [RecOpt(t, o) EXCEPT !.hdr.class = c], size |-> z] :
        t \in TtlPool, o \in {<<>>, <<OptLocal>>}, c \in {0, 1232},
        z \in {0, 512, 1350, 65535}}

CallArgs ==
    QuestionArgs \cup SetHdrArgs \cup UdpSizeArgs \cup
    BoundaryNameArgs \cup SectionArgs \cup AccessorArgs \cup SetDoArgs \cup NameArgs \cup SubNetArgs \cup ReplyArgs \cup HdrArgs \cup PktArgs \cup OptArgs
    \cup WireNameArgs

InitCalls ==
    /\ phase = "call"
    /\ arg \in CallArgs
    /\ ret = None
    /\ Idle

\* pack_domain_name(input, &mut buf)
PackDomainName ==
    /\ phase = "call" /\ arg.fn = "name"
    /\ ret' = pack_domain_name(arg.input, arg.buf)
    /\ phase' = "pack_domain_name"
    /\ UNCHANGED <<m, wire, packed, out, outq, rr, rrout, dec, nstart, nexp, ud, sk, lb, md, arg>>

\* Labels::encode_with_io(input)?.pack(&mut buf)
LabelsEncode ==
    /\ phase = "call" /\ arg.fn = "name"
    /\ ret' = Labels_encode_pack(arg.input, arg.buf)
    /\ phase' = "Labels::encode"
    /\ UNCHANGED <<m, wire, packed, out, outq, rr, rrout, dec, nstart, nexp, ud, sk, lb, md, arg>>

\* Labels::encode_to_buf(input, &mut buf)
LabelsEncodeToBuf ==
    /\ phase = "call" /\ arg.fn = "name"
    /\ ret' = Labels_encode_to_buf(arg.input, arg.buf)
    /\ phase' = "Labels::encode_to_buf"
    /\ UNCHANGED <<m, wire, packed, out, outq, rr, rrout, dec, nstart, nexp, ud, sk, lb, md, arg>>

\* Question::pack, RecourseRecordHdr::pack and Msg::pack of a question, a
\* record header and a message that carry the name
PackNameCarriers ==
    /\ phase = "call" /\ arg.fn = "name"
    /\ ret' = [st |-> "Done",
               question |-> Question_pack(Q(arg.input), arg.buf).st,
               hdr |-> RecourseRecordHdr_pack(Hdr(arg.input, TYPE_A, CLASS_INET, <<0, 120>>, 4),
                                              arg.buf).st,
               msg |-> Msg_pack(MkMsg(DefaultHdr, <<Q(arg.input)>>, <<>>, <<>>, <<>>), <<>>).st]
    /\ phase' = "carriers"
    /\ UNCHANGED <<m, wire, packed, out, outq, rr, rrout, dec, nstart, nexp, ud, sk, lb, md, arg>>

\* SubNet::pack(&self, &mut buf)
SubNetPack ==
    /\ phase = "call" /\ arg.fn = "subnet"
    /\ ret' = SubNet_pack(arg.e, arg.buf)
    /\ phase' = "SubNet::pack"
    /\ UNCHANGED <<m, wire, packed, out, outq, rr, rrout, dec, nstart, nexp, ud, sk, lb, md, arg>>

\* resp.set_reply(&req)
SetReply ==
    /\ phase = "call" /\ arg.fn = "reply" /\ arg.response_code = RCODE_SUCCESS
    /\ ret' = Msg_set_reply(arg.self, arg.request)
    /\ phase' = "set_reply"
    /\ UNCHANGED <<m, wire, packed, out, outq, rr, rrout, dec, nstart, nexp, ud, sk, lb, md, arg>>

\* msg.as_reply()
AsReply ==
    /\ phase = "call" /\ arg.fn = "reply"
    /\ ret' = Msg_as_reply(arg.self)
    /\ phase' = "as_reply"
    /\ UNCHANGED <<m, wire, packed, out, outq, rr, rrout, dec, nstart, nexp, ud, sk, lb, md, arg>>

\* msg.set_question(name, q_type), the id drawn at random
SetQuestion ==
    /\ phase = "call" /\ arg.fn = "question"
    /\ \E id \in IdPool : ret' = Msg_set_question(arg.self, arg.name, arg.q_type, id)
    /\ phase' = "set_question"
    /\ UNCHANGED <<m, wire, packed, out, outq, rr, rrout, dec, nstart, nexp, ud, sk, lb, md, arg>>

\* msg.set_hdr(h)
SetHdr ==
    /\ phase = "call" /\ arg.fn = "set_hdr"
    /\ ret' = Msg_set_hdr(arg.self, arg.pkt)
    /\ phase' = "set_hdr"
    /\ UNCHANGED <<m, wire, packed, out, outq, rr, rrout, dec, nstart, nexp, ud, sk, lb, md, arg>>

\* opt.set_udp_size(size)
OptSetUdpSize ==
    /\ phase = "call" /\ arg.fn = "udp_size"
    /\ ret' = set_udp_size(arg.opt, arg.size)
    /\ phase' = "set_udp_size"
    /\ UNCHANGED <<m, wire, packed, out, outq, rr, rrout, dec, nstart, nexp, ud, sk, lb, md, arg>>

\* resp.set_response_code(&req, code)
SetResponseCode ==
    /\ phase = "call" /\ arg.fn = "reply"
    /\ ret' = Msg_set_response_code(arg.self, arg.request, arg.response_code)
    /\ phase' = "set_response_code"
    /\ UNCHANGED <<m, wire, packed, out, outq, rr, rrout, dec, nstart, nexp, ud, sk, lb, md, arg>>

\* let p: PktMsgHeader = hdr.into(); MsgHdr::from(p)
HeaderConvert ==
    /\ phase = "call" /\ arg.fn = "hdr"
    /\ ret' = [st |-> "Done", pkt |-> MsgHdrIntoPkt(arg.hdr),
                back |-> MsgHdrFromPkt(MsgHdrIntoPkt(arg.hdr))]
    /\ phase' = "convert"
    /\ UNCHANGED <<m, wire, packed, out, outq, rr, rrout, dec, nstart, nexp, ud, sk, lb, md, arg>>

\* pkt.pack(&mut buf) on an empty buffer, then PktMsgHeader::unpack on the
\* bytes that arrive
HeaderPackUnpack ==
    /\ phase = "call" /\ arg.fn = "pkt"
    /\ LET bytes == PktMsgHeader_pack(arg.pkt, <<>>)
           sent == IF arg.avail > Len(bytes) THEN bytes \o <<9>> ELSE Take(bytes, arg.avail)
       IN  ret' = [st |-> "Done", bytes |-> bytes, sent |-> sent,
                   un |-> PktMsgHeader_unpack(sent, 0)]
    /\ phase' = "header"
    /\ UNCHANGED <<m, wire, packed, out, outq, rr, rrout, dec, nstart, nexp, ud, sk, lb, md, arg>>

\* one pass of the loop of unpack_slice: RecourseRecordHdr::unpack, the two
\* length checks, then RecourseRecord::unpack, which hands an OPT record to
\* Opt::unpack
OptUnpack ==
    /\ phase = "call" /\ arg.fn = "opt"
    /\ ret' = unpack_slice_iter(arg.buf, 0)
    /\ phase' = "Opt::unpack"
    /\ UNCHANGED <<m, wire, packed, out, outq, rr, rrout, dec, nstart, nexp, ud, sk, lb, md, arg>>

\* unpack_domain_name(buf, off)
UnpackDomainName ==
    /\ phase = "call" /\ arg.fn = "wire name"
    /\ ret' = unpack_domain_name(arg.buf, arg.off)
    /\ phase' = "unpack_domain_name"
    /\ UNCHANGED <<m, wire, packed, out, outq, rr, rrout, dec, nstart, nexp, ud, sk, lb, md, arg>>

\* the four accessors of an OPT record, and extended_r_code() again after
\* set_extended_r_code(v)
OptAccessors ==
    /\ phase = "call" /\ arg.fn = "opt fields"
    /\ ret' = [st |-> "Done", version |-> version(arg.opt), is_do |-> is_do(arg.opt),
                extended_r_code |-> extended_r_code(arg.opt), udp_size |-> udp_size(arg.opt),
                set |-> set_extended_r_code(arg.opt, arg.v),
                after |-> extended_r_code(set_extended_r_code(arg.opt, arg.v))]
    /\ phase' = "Opt accessors"
    /\ UNCHANGED <<m, wire, packed, out, outq, rr, rrout, dec, nstart, nexp, ud, sk, lb, md, arg>>

\* opt.set_do(d)
OptSetDo ==
    /\ phase = "call" /\ arg.fn = "set_do"
    /\ ret' = set_do(arg.opt, arg.d)
    /\ phase' = "set_do"
    /\ UNCHANGED <<m, wire, packed, out, outq, rr, rrout, dec, nstart, nexp, ud, sk, lb, md, arg>>

\* unpack_slice(l, &mut slice, &mut cur) on a buffer that holds l records
UnpackSlice ==
    /\ phase = "call" /\ arg.fn = "section"
    /\ ret' = unpack_slice(Len(arg.recs), arg.buf, 0)
    /\ phase' = "unpack_slice"
    /\ UNCHANGED <<m, wire, packed, out, outq, rr, rrout, dec, nstart, nexp, ud, sk, lb, md, arg>>

\* pack_domain_name(input, &mut buf) and, when it succeeds,
\* unpack_domain_name(&buf, 0)
NameRoundTrip ==
    /\ phase = "call" /\ arg.fn = "name"
    /\ LET p == pack_domain_name(arg.input, arg.buf)
       IN  ret' = [st |-> p.st, buf |-> p.buf,
                   un |-> IF p.st = "Ok" THEN unpack_domain_name(p.buf, 0) ELSE None]
    /\ phase' = "name round trip"
    /\ UNCHANGED <<m, wire, packed, out, outq, rr, rrout, dec, nstart, nexp, ud, sk, lb, md, arg>>

NextCalls ==
    \/ PackDomainName \/ LabelsEncode \/ PackNameCarriers \/ SubNetPack
    \/ SetReply \/ SetResponseCode \/ HeaderConvert \/ HeaderPackUnpack
    \/ OptUnpack \/ UnpackDomainName \/ OptAccessors \/ OptSetDo \/ UnpackSlice
    \/ NameRoundTrip \/ LabelsEncodeToBuf \/ AsReply \/ SetQuestion
    \/ SetHdr \/ OptSetUdpSize

SpecCalls == InitCalls /\ [][NextCalls]_vars

----------------------------------------------------------------------------
(* Properties of the message codec *)

\* the call Msg::pack has been made on m
PackCalled == packed.st \in {"Ok", "Err", "Panic"}

\* Msg::unpack has been called on wire
UnpackCalled == phase \in {"unpacked", "questions"}

\* the decoded bytes are the ones Msg::pack produced
RoundTrip == UnpackCalled /\ packed.st = "Ok" /\ wire = packed.buf

\* the OPT records of a record list, in order
OptRecords(recs) == SelectSeq(recs, LAMBDA r : r.kind = "Opt")

\* C1: the header written by Msg::pack carries qdcount = |question|,
\* ancount = |answer|, nscount = |authority| and arcount = |additional|, in
\* that order in bytes 4..11.
C1_HeaderCounts ==
    packed.st = "Ok" =>
        /\ BeU16(packed.buf, 4) = Len(m.question)
        /\ BeU16(packed.buf, 6) = Len(m.answer)
        /\ BeU16(packed.buf, 8) = Len(m.authority)
        /\ BeU16(packed.buf, 10) = Len(m.additional)

\* C2: Msg::pack checks the response code before it writes anything: above
\* 0xFFF it fails with BadResponseCode; in 0x10..0xFFF without an OPT record
\* in additional it fails with BadExtendedResponseCode; in every other case
\* it fails with neither.
C2_ResponseCodeValidation ==
    PackCalled =>
        /\ m.hdr.response_code > 4095 =>
              packed.st = "Err" /\ packed.err = "BadResponseCode" /\ packed.buf = <<>>
        /\ (m.hdr.response_code > 15 /\ m.hdr.response_code <= 4095
              /\ OptRecords(m.additional) = <<>>) =>
              packed.st = "Err" /\ packed.err = "BadExtendedResponseCode" /\ packed.buf = <<>>
        /\ (m.hdr.response_code <= 15
              \/ (m.hdr.response_code <= 4095 /\ OptRecords(m.additional) # <<>>)) =>
              ~(packed.st = "Err"
                  /\ packed.err \in {"BadResponseCode", "BadExtendedResponseCode"})

\* a code above 0xF is rejected for want of an OPT record in additional,
\* although the authority list holds one and a question could not be encoded
C2_Witness ==
    /\ packed.st = "Err" /\ packed.err = "BadExtendedResponseCode"
    /\ \/ OptRecords(m.authority) # <<>>
       \/ m.question # <<>>

\* C3: after a successful Msg::unpack, hdr.response_code is (E << 4) | B, B
\* the low four bits of the flags word and E bits 24-31 of the ttl of the
\* OPT record of the additional section; without such a record it is B.
C3_ExtendedResponseCode ==
    (UnpackCalled /\ out.st = "Ok") =>
        IF OptRecords(out.val.additional) # <<>>
        THEN out.val.hdr.response_code =
                (OptRecords(out.val.additional)[1].hdr.ttl[1] \div 256) * 16
                    + (BeU16(wire, 2) % 16)
        ELSE out.val.hdr.response_code = BeU16(wire, 2) % 16

\* C4: a message that Msg::pack accepts decodes, and the decoded hdr has the
\* id, flags, opcode and 12-bit response code of the message.
C4_HeaderRoundTrip ==
    RoundTrip => out.st = "Ok" /\ out.val.hdr = m.hdr

\* C8: whatever the bytes, Msg::unpack returns Ok or Err; it never reaches an
\* out-of-range access.
C8_NoPanic ==
    UnpackCalled => out.st \in {"Ok", "Err"}

\* C9: when Msg::unpack_questions returns a list, it holds question_count
\* questions; a question that fails to decode makes it return None.
C9_NoPartialQuestions ==
    (phase = "questions" /\ outq.st = "Some") => Len(outq.val) = BeU16(wire, 4)

----------------------------------------------------------------------------
(* Properties of the decoders *)

\* C6: a name written as literal labels followed by a compression pointer
\* decodes to the text that its pointer-free encoding decodes to; in the
\* captured response the second and third answer, which use the same
\* pointer as owner name, decode to the same name.
C6_PointerEqualsExpanded ==
    /\ (dec = "unpack" /\ nexp # <<>> /\ ud.ret # "run") =>
          /\ unpack_domain_name_result(ud).st = "Ok"
          /\ unpack_domain_name(nexp, 0).st = "Ok"
          /\ unpack_domain_name_result(ud).name = unpack_domain_name(nexp, 0).name
    /\ (dec = "msg" /\ wire = Captured /\ md.pc = "done") =>
          /\ md.res = "Ok"
          /\ Len(md.msg.question) = 1 /\ Len(md.msg.answer) = 3
          /\ md.msg.answer[2].hdr.name = md.msg.answer[3].hdr.name

\* the owner name of the third answer of the captured response has been
\* decoded through its pointer and the pointer inside the name it points to
C6_Witness ==
    /\ dec = "unpack" /\ wire = Captured /\ nstart = 74
    /\ ud.ret = "break" /\ ud.ptr = 2 /\ Len(ud.s) > 1

\* the decoder has ended with a value or an error
DecodeReturned ==
    \/ dec = "unpack" /\ ud.ret \in {"break", "err"}
    \/ dec = "skip" /\ sk.ret \in {"break", "none"}
    \/ dec = "labels" /\ lb.ret \in {"ok", "err"}
    \/ dec = "msg" /\ md.pc = "done" /\ md.res \in {"Ok", "Err"}

\* the decoder can make no further step
DecodeEnded ==
    \/ dec = "unpack" /\ ud.ret # "run"
    \/ dec = "skip" /\ sk.ret # "run"
    \/ dec = "labels" /\ lb.ret # "run"
    \/ dec = "msg" /\ md.pc = "done"

\* C7: every decoder ends with a return: the loops of unpack_domain_name and
\* __skip_domain_name make at most 255 iterations, the loop of
\* read_string_recursive at most RECURSION_LIMIT passes over the buffer,
\* Msg::unpack reads at most as many items as the header counts, and a
\* decoder that has ended has returned a value or an error.
C7_DecodeReturns ==
    /\ dec = "unpack" => ud.iters <= MAX_DOMAIN_NAME_WIRE_OCTETS
    /\ dec = "skip" => sk.iters <= MAX_DOMAIN_NAME_WIRE_OCTETS
    /\ dec = "labels" => lb.iters <= RECURSION_LIMIT * (Len(wire) + 1)
    /\ DecodeEnded => DecodeReturned

\* the record header at pos declares more rdata than the buffer holds
RecordOverruns(buf, pos) ==
    /\ RecourseRecordHdr_unpack(buf, pos).st = "Ok"
    /\ RecourseRecordHdr_unpack(buf, pos).pos
          + RecourseRecordHdr_unpack(buf, pos).val.rd_length > Len(buf)

\* C10: a record whose rd_length overruns the buffer ends Msg::unpack with
\* an error, and each of the two conditions "overflow header" and
\* "bad rdlength" is reported for some input.
C10_TwoConditions ==
    /\ (dec = "msg" /\ md.pc \in {"answer", "authority", "additional"}
          /\ RecordOverruns(wire, md.pos)) =>
          /\ Msg_unpack_step(wire, md).pc = "done"
          /\ Msg_unpack_step(wire, md).res = "Err"
          /\ Msg_unpack_step(wire, md).err \in {"overflow header", "bad rdlength"}
    /\ \A e \in {"overflow header", "bad rdlength"} :
          \/ \E w \in MsgWires : Msg_unpack(w).st = "Err" /\ Msg_unpack(w).err = e
          \/ \E n \in 0..MaxBuf, pos \in 0..MaxBuf, l \in 0..(MaxBuf + 1) :
                rd_length_check([rd_length |-> l], Rep(n, 0), pos) = e

----------------------------------------------------------------------------
(* Properties of the decoded sections *)

\* the type fields of a record list, in order
RecordTypes(recs) == [i \in 1..Len(recs) |-> recs[i].hdr.typ]

\* C11: when Msg::unpack returns Ok(msg), either the input is exactly 12
\* bytes long and the four sections are empty, or the four sections hold as
\* many elements as qdcount, ancount, nscount and arcount declare; the
\* elements stand in wire order: decoding what Msg::pack wrote yields the
\* questions and the record types in the order they were written.
C11_SectionCounts ==
    (UnpackCalled /\ out.st = "Ok") =>
        /\ \/ /\ Len(wire) = 12
              /\ out.val.question = <<>> /\ out.val.answer = <<>>
              /\ out.val.authority = <<>> /\ out.val.additional = <<>>
           \/ /\ Len(out.val.question) = BeU16(wire, 4)
              /\ Len(out.val.answer) = BeU16(wire, 6)
              /\ Len(out.val.authority) = BeU16(wire, 8)
              /\ Len(out.val.additional) = BeU16(wire, 10)
        /\ (RoundTrip /\ Len(wire) > 12) =>
              /\ [i \in 1..Len(out.val.question) |-> out.val.question[i].q_type]
                    = [i \in 1..Len(m.question) |-> m.question[i].q_type]
              /\ RecordTypes(out.val.answer \o out.val.authority \o out.val.additional)
                    = RecordTypes(m.answer \o m.authority \o m.additional)

\* a packed message with two answers of different types has been decoded
C11_Witness ==
    /\ RoundTrip /\ out.st = "Ok"
    /\ Len(out.val.question) = 1
    /\ RecordTypes(out.val.answer) = <<TYPE_A, TYPE_CNAME>>

\* a header-only input that declares a question has been decoded
C11_WitnessHeaderOnly ==
    UnpackCalled /\ out.st = "Ok" /\ Len(wire) = 12 /\ BeU16(wire, 4) = 1

----------------------------------------------------------------------------
(* Properties of the name encoders *)

\* the segments that are not empty, in order
NonEmptySegments(segs) == SelectSeq(segs, LAMBDA x : x # <<>>)

\* [len][bytes] for each label in order
RECURSIVE LabelBytes(_)
LabelBytes(labels) ==
    IF labels = <<>> THEN <<>>
    ELSE (<<Len(labels[1])>> \o labels[1]) \o LabelBytes(Tail(labels))

\* the first label longer than 255 bytes, if there is one
TooLong(segs) == SelectSeq(segs, LAMBDA x : Len(x) > 255)

\* C12: pack_domain_name and Labels::encode split the text on '.', drop the
\* empty segments, and write [len][bytes] for each remaining segment in
\* order and then one zero byte; they fail, naming the segment, exactly
\* when a segment is longer than 255 bytes.
C12_PackDomainName ==
    phase \in {"pack_domain_name", "Labels::encode"} =>
        IF TooLong(arg.segs) = <<>>
        THEN /\ ret.st = "Ok"
             /\ ret.buf = (arg.buf \o LabelBytes(NonEmptySegments(arg.segs))) \o <<0>>
        ELSE /\ ret.st = "Err"
             /\ ret.label = TooLong(arg.segs)[1]

\* "a..bc" has been encoded
C12_Witness ==
    phase = "pack_domain_name" /\ arg.input = <<97, 46, 46, 98, 99>> /\ ret.st = "Ok"

\* a name with a 256-byte label after a short one has been refused
C12_WitnessTooLong ==
    phase = "Labels::encode" /\ arg.segs = <<<<97>>, Rep(256, 121)>> /\ ret.st = "Err"

\* a name with a 255-byte label has been encoded
C12_WitnessLongest ==
    phase = "pack_domain_name" /\ arg.segs = <<Rep(255, 120), <<>>, <<97>>>> /\ ret.st = "Ok"

\* the number of octets of the wire encoding of a name: one length byte per
\* label, the label bytes, and the terminating zero byte
WireOctets(segs) == Len(LabelBytes(NonEmptySegments(segs))) + 1

\* C13: a name whose wire encoding would be longer than 255 octets is
\* refused by pack_domain_name, and so by Question::pack,
\* RecourseRecordHdr::pack and Msg::pack, also when every label is at most
\* 255 bytes long.
C13_TotalLengthRefused ==
    /\ (phase = "pack_domain_name" /\ WireOctets(arg.segs) > MAX_DOMAIN_NAME_WIRE_OCTETS)
           => ret.st = "Err"
    /\ (phase = "carriers" /\ WireOctets(arg.segs) > MAX_DOMAIN_NAME_WIRE_OCTETS)
           => ret.question = "Err" /\ ret.hdr = "Err" /\ ret.msg = "Err"

----------------------------------------------------------------------------
(* Properties of the Client-Subnet option *)

\* bit j of an address, counted from the most significant bit of octet 0
AddrBit(o, j) == (o[j \div 8 + 1] \div Pow2(7 - (j % 8))) % 2

\* an IPv6 address of the form ::ffff:a.b.c.d
IsMapped(o) == SubSeq(o, 1, 12) = Rep(10, 0) \o <<255, 255>>

\* the address a Client-Subnet option of that family stands for
SubNetAddress(e) ==
    IF e.family = 1
    THEN IF e.address.v = 4 THEN e.address.o ELSE SubSeq(e.address.o, 13, 16)
    ELSE IF e.address.v = 6 THEN e.address.o ELSE Rep(10, 0) \o <<255, 255>> \o e.address.o

\* C14: SubNet::pack succeeds exactly for family 0 with netmask 0, family 1
\* with netmask <= 32 and an IPv4 or IPv4-mapped address, and family 2 with
\* netmask <= 128. For family 1 and 2 it writes the address with every bit
\* beyond the netmask cleared.
C14_SubNetPack ==
    phase = "SubNet::pack" =>
        LET e == arg.e
            written == Drop(ret.buf, Len(arg.buf) + 4)
        IN  /\ ret.st = "Ok" <=>
                 \/ e.family = 0 /\ e.source_netmask = 0
                 \/ e.family = 1 /\ e.source_netmask <= 32
                    /\ (e.address.v = 4 \/ IsMapped(e.address.o))
                 \/ e.family = 2 /\ e.source_netmask <= 128
            /\ ret.st \in {"Ok", "Err"}
            /\ (ret.st = "Ok" /\ e.family = 0) => written = <<>>
            /\ (ret.st = "Ok" /\ e.family \in {1, 2}) =>
                 /\ Len(written) = IF e.family = 1 THEN 4 ELSE 16
                 /\ \A j \in 0..(8 * Len(written) - 1) :
                       AddrBit(written, j) =
                          IF j < e.source_netmask THEN AddrBit(SubNetAddress(e), j) ELSE 0

\* 1.2.3.4 with netmask 24 has been written as 1.2.3.0
C14_Witness ==
    /\ phase = "SubNet::pack"
    /\ arg.e.address = V4(1, 2, 3, 4) /\ arg.e.source_netmask = 24 /\ arg.e.family = 1
    /\ ret.st = "Ok" /\ ret.buf = <<0, 1, 24, 0, 1, 2, 3, 0>>

----------------------------------------------------------------------------
(* Properties of replies *)

\* C15: after resp.set_reply(req) the reply has the id and opcode of the
\* request, response set and response code 0; recursion_desired and
\* checking_disabled are the request's for opcode QUERY and unchanged
\* otherwise; the other five flags and the three record lists are
\* unchanged; with a question in the request, the reply's question list is
\* exactly the request's first question.
C15_SetReply ==
    phase = "set_reply" =>
        LET old == arg.self
            req == arg.request
        IN  /\ ret.hdr.id = req.hdr.id
            /\ ret.hdr.response = TRUE
            /\ ret.hdr.op_code = req.hdr.op_code
            /\ ret.hdr.response_code = 0
            /\ IF req.hdr.op_code = 0
               THEN /\ ret.hdr.recursion_desired = req.hdr.recursion_desired
                    /\ ret.hdr.checking_disabled = req.hdr.checking_disabled
               ELSE /\ ret.hdr.recursion_desired = old.hdr.recursion_desired
                    /\ ret.hdr.checking_disabled = old.hdr.checking_disabled
            /\ ret.hdr.authoritative = old.hdr.authoritative
            /\ ret.hdr.truncated = old.hdr.truncated
            /\ ret.hdr.recursion_available = old.hdr.recursion_available
            /\ ret.hdr.zero = old.hdr.zero
            /\ ret.hdr.authenticated_data = old.hdr.authenticated_data
            /\ ret.answer = old.answer
            /\ ret.authority = old.authority
            /\ ret.additional = old.additional
            /\ Len(req.question) > 0 => ret.question = <<req.question[1]>>

\* a reply that held flags and two questions of its own has been set from a
\* request with another opcode and two questions
C15_Witness ==
    /\ phase = "set_reply"
    /\ arg.request.hdr.op_code = 2 /\ Len(arg.request.question) = 2
    /\ arg.self.hdr.recursion_desired # arg.request.hdr.recursion_desired
    /\ Len(arg.self.question) = 2
    /\ ret.question = <<Q(NameA)>>

----------------------------------------------------------------------------
(* Properties of the packed records *)

\* the bytes Msg::pack appends for one question, and for one record
QuestionWire(q) == Question_pack(q, <<>>).buf
RecordWire(r) == RecourseRecord_pack(r, RecourseRecordHdr_pack(r.hdr, <<>>).buf).buf

RECURSIVE WireLen(_, _)
WireLen(parts, i) == IF i > Len(parts) THEN 0 ELSE Len(parts[i]) + WireLen(parts, i + 1)

\* the offset at which the i-th record of the additional list starts
AdditionalOffset(msg, i) ==
    12 + WireLen([k \in 1..Len(msg.question) |-> QuestionWire(msg.question[k])], 1)
       + WireLen([k \in 1..Len(msg.answer) |-> RecordWire(msg.answer[k])], 1)
       + WireLen([k \in 1..Len(msg.authority) |-> RecordWire(msg.authority[k])], 1)
       + WireLen([k \in 1..(i - 1) |-> RecordWire(msg.additional[k])], 1)

\* the offset of the ttl field of the i-th record of the additional list
AdditionalTtlOffset(msg, i) ==
    AdditionalOffset(msg, i) + Len(pack_domain_name(msg.additional[i].hdr.name, <<>>).buf) + 4

\* C16: when Msg::pack serializes a message with response code r <= 0xFFF,
\* bits 0-3 of the flags word are r & 0xF and every OPT record of the
\* additional list is written with its own ttl in bits 0-23 and r >> 4 in
\* bits 24-31; the message of the caller, its OPT records included, is the
\* same after the call.
C16_ExtendedCodeWritten ==
    [][(phase = "built" /\ packed'.st = "Ok") =>
          /\ m' = m
          /\ BeU16(packed'.buf, 2) % 16 = m.hdr.response_code % 16
          /\ \A i \in 1..Len(m.additional) :
                m.additional[i].kind = "Opt" =>
                   LET off == AdditionalTtlOffset(m, i)
                       ttl == m.additional[i].hdr.ttl
                   IN  /\ packed'.buf[off + 1] = m.hdr.response_code \div 16
                       /\ packed'.buf[off + 2] = ttl[1] % 256
                       /\ BeU16(packed'.buf, off + 2) = ttl[2]]_vars

\* a message with response code 0x123 and two OPT records, the first with a
\* non-zero extended field of its own, DO and a version, has been packed
C16_Witness ==
    /\ phase = "packed" /\ packed.st = "Ok"
    /\ m.hdr.response_code = 291
    /\ Len(OptRecords(m.additional)) = 2
    /\ m.additional[1].hdr.ttl = <<43981, 32773>>
    /\ m.additional[3].kind = "Opt"

----------------------------------------------------------------------------
(* Properties of the header codec *)

\* 2^k when the flag is set
FlagBit(b, k) == IF b THEN Pow2(k) ELSE 0

\* C17: for a MsgHdr with op_code and response_code in 0..15 the flags
\* word holds op_code in bits 11-14, response_code in bits 0-3, QR, AA, TC,
\* RD, RA, Z, AD, CD in bits 15, 10, 9, 8, 7, 6, 5, 4 and nothing else, and
\* converting back gives the same MsgHdr; PktMsgHeader::pack writes 12
\* bytes, unpack of them gives the header back, and unpack fails exactly
\* when fewer than 12 bytes are available.
C17_HeaderCodec ==
    /\ (phase = "convert" /\ arg.hdr.op_code \in 0..15 /\ arg.hdr.response_code \in 0..15) =>
          /\ ret.pkt.bits =
                arg.hdr.op_code * 2048 + arg.hdr.response_code
                + FlagBit(arg.hdr.response, 15) + FlagBit(arg.hdr.authoritative, 10)
                + FlagBit(arg.hdr.truncated, 9) + FlagBit(arg.hdr.recursion_desired, 8)
                + FlagBit(arg.hdr.recursion_available, 7) + FlagBit(arg.hdr.zero, 6)
                + FlagBit(arg.hdr.authenticated_data, 5)
                + FlagBit(arg.hdr.checking_disabled, 4)
          /\ ret.pkt.id = arg.hdr.id
          /\ ret.back = arg.hdr
    /\ phase = "header" =>
          /\ Len(ret.bytes) = 12
          /\ ret.un.st = "Ok" <=> Len(ret.sent) >= 12
          /\ ret.un.st = "Ok" => ret.un.val = arg.pkt

\* a header with opcode 15, response code 15 and every flag but QR has been
\* converted, and a header with four different counts has been packed and
\* read back in full
C17_Witness ==
    \/ /\ phase = "convert" /\ arg.hdr.op_code = 15 /\ arg.hdr.response_code = 15
       /\ ret.pkt.bits = 30735 + 32768
    \/ /\ phase = "header" /\ ret.un.st = "Ok"
       /\ arg.pkt.bits = 33152 /\ arg.pkt.question_count = 258
       /\ arg.pkt.authority_count = 65535

\* the records of a message in the order Msg::pack writes them
AllRecords(msg) == msg.answer \o msg.authority \o msg.additional

\* the offset at which the i-th record of the message starts
RecordOffset(msg, i) ==
    12 + WireLen([k \in 1..Len(msg.question) |-> QuestionWire(msg.question[k])], 1)
       + WireLen([k \in 1..(i - 1) |-> RecordWire(AllRecords(msg)[k])], 1)

\* the length of the encoded owner name of a record
OwnerLen(r) == Len(pack_domain_name(r.hdr.name, <<>>).buf)

\* the offset, inside the rdata of an OPT record, of its j-th option
OptionOffset(r, j) ==
    WireLen([k \in 1..(j - 1) |-> <<0, 0, 0, 0>> \o EDNS0_pack(r.option[k], <<>>).buf], 1)

\* C18: in the bytes produced by Msg::pack the rdlength field of every
\* record equals the number of rdata bytes written after it, whatever the
\* variant and the rd_length of the caller's header, and the option_length
\* field of every EDNS0 option equals the number of option data bytes written.
C18_RdLengthWritten ==
    (phase = "packed" /\ packed.st = "Ok") =>
        \A i \in 1..Len(AllRecords(m)) :
            LET r == AllRecords(m)[i]
                rdata == RecordOffset(m, i) + OwnerLen(r) + 10
            IN  /\ BeU16(packed.buf, rdata - 2) = RecordOffset(m, i + 1) - rdata
                /\ r.kind = "Opt" =>
                      \A j \in 1..Len(r.option) :
                          BeU16(packed.buf, rdata + OptionOffset(r, j) + 2)
                             = Len(EDNS0_pack(r.option[j], <<>>).buf)

----------------------------------------------------------------------------
(* Properties of the OPT decoder *)

\* C19: Opt::unpack decodes exactly the options that lie in the rd_length
\* bytes after the OPT record header, none when rd_length is 0, each with
\* the option_length bytes after its own 4-byte header as data; it stops at
\* the end of the rdata and leaves the cursor there, whatever follows in the
\* message.
C19_OptionsWithinRdata ==
    phase = "Opt::unpack" =>
        /\ ret.st = "Ok"
        /\ ret.val.kind = "Opt"
        /\ ret.val.option =
              [i \in 1..Len(arg.opts) |-> EDNS0_unpack(arg.opts[i].code, arg.opts[i].data).val]
        /\ ret.pos = Len(arg.buf) - Len(arg.tail)

----------------------------------------------------------------------------
(* Properties of the name decoder *)

\* C20: unpack_domain_name fails for every name whose wire encoding (one
\* length byte per label, the label bytes and the terminating zero, over all
\* labels read, those reached through a pointer included) exceeds 255
\* octets, and does not fail on the limit for a name of at most 255 octets.
C20_BudgetExact ==
    phase = "unpack_domain_name" =>
        /\ arg.total > MAX_DOMAIN_NAME_WIRE_OCTETS => ret.st = "Err"
        /\ arg.total <= MAX_DOMAIN_NAME_WIRE_OCTETS =>
              ~(ret.st = "Err" /\ ret.err = "domain name exceeded 255 wire-format octets")

----------------------------------------------------------------------------
(* Properties of Labels::unpack *)

\* C21: Labels::unpack fails with TooMuchRecursion when a pointer targets an
\* offset already visited in the decode, fails when more than 8 pointers are
\* nested, and decodes every name whose chain is 8 or fewer pointers to
\* pairwise distinct in-range offsets.
C21_PointerChains ==
    (dec = "labels" /\ lb.ret # "run") =>
        \A n \in ChainLengths :
            /\ wire = PointerChain(n, TRUE).wire =>
                  lb.ret = "err" /\ lb.err = "TooMuchRecursion"
            /\ (wire = PointerChain(n, FALSE).wire /\ n > RECURSION_LIMIT) =>
                  lb.ret = "err" /\ lb.err = "TooMuchRecursion"
            /\ (wire = PointerChain(n, FALSE).wire /\ n <= RECURSION_LIMIT) =>
                  lb.ret = "ok" /\ lb.segments = <<>>

\* the length byte the decoder is about to read has top bits 01 or 10
ReservedAt(off) == off < Len(wire) /\ wire[off + 1] \in 64..191

\* C22: unpack_domain_name, __skip_domain_name and Labels::unpack fail at
\* once, without reading any label byte, on a length byte whose top two
\* bits are 01 or 10 (0x40..0xBF).
C22_ReservedLengthFails ==
    [][/\ (dec = "unpack" /\ ud.ret = "run" /\ ReservedAt(ud.off)) =>
              ud'.ret = "err" /\ ud'.off = ud.off + 1 /\ ud'.s = ud.s
       /\ (dec = "skip" /\ sk.ret = "run" /\ ReservedAt(sk.off)) =>
              sk'.ret = "none" /\ sk'.off = sk.off + 1
       /\ (dec = "labels" /\ lb.ret = "run" /\ ReservedAt(lb.pos)) =>
              lb'.ret = "err" /\ lb'.segments = lb.segments]_vars

----------------------------------------------------------------------------
(* Properties of the returned position *)

\* the labels read in place from off, no pointer followed: the offset after
\* the zero terminator, or after the two bytes of the first pointer
RECURSIVE InPlaceEnd(_, _)
InPlaceEnd(buf, off) ==
    IF buf[off + 1] = 0 THEN off + 1
    ELSE IF buf[off + 1] >= 192 THEN off + 2
    ELSE InPlaceEnd(buf, off + 1 + buf[off + 1])

\* C23: the position returned by unpack_domain_name, and set on the cursor
\* by unpack_domain_name_cur, is the offset after the zero terminator when
\* no pointer was followed and the offset after the two bytes of the first
\* pointer otherwise, whatever pointers and bytes were read after it.
C23_ResumePosition ==
    (dec = "unpack" /\ ud.ret = "break") =>
        /\ unpack_domain_name_result(ud).st = "Ok"
        /\ unpack_domain_name_result(ud).pos = InPlaceEnd(wire, nstart)
        /\ unpack_domain_name_cur(wire, nstart).pos = InPlaceEnd(wire, nstart)

\* the owner name of the third answer of the captured response, which lies
\* behind two pointers, has been decoded and the position is 76
C23_Witness ==
    /\ dec = "unpack" /\ wire = Captured /\ nstart = 74
    /\ ud.ret = "break" /\ ud.ptr = 2
    /\ unpack_domain_name_result(ud).pos = 76 /\ ud.off # 76

\* C24: for every buffer and start offset __skip_domain_name returns Some(p)
\* exactly when unpack_domain_name returns Ok((name, p)), with the same p,
\* and None exactly when unpack_domain_name fails; Question::skip and
\* Question::unpack succeed on the same inputs and leave the cursor at the
\* same position.
C24_SkipEqualsUnpack ==
    (dec = "unpack" /\ ud.ret # "run") =>
        LET u == unpack_domain_name_result(ud)
            k == __skip_domain_name(wire, nstart)
            qu == Question_unpack(wire, nstart)
            qk == Question_skip(wire, nstart)
        IN  /\ u.st = "Ok" <=> k.st = "Some"
            /\ u.st = "Err" <=> k.st = "None"
            /\ u.st = "Ok" => u.pos = k.pos
            /\ qu.st = "Ok" <=> qk.st = "Ok"
            /\ qu.st = "Ok" => qu.pos = qk.pos

\* the owner name of the first answer of the captured response, a pointer
\* to the question name, has been decoded and skipped to offset 33, and the
\* four bytes after it read
C24_Witness ==
    /\ dec = "unpack" /\ wire = Captured /\ nstart = 31 /\ ud.ret = "break" /\ ud.ptr = 1
    /\ __skip_domain_name(wire, nstart) = [st |-> "Some", pos |-> 33]
    /\ Question_skip(wire, nstart).st = "Ok" /\ Question_skip(wire, nstart).pos = 37

----------------------------------------------------------------------------
(* Properties of the OPT accessors *)

\* C25: for every ttl, version() is bits 16-23, is_do() is bit 15,
\* extended_r_code() is bits 24-31 shifted left by 4 and udp_size() is the
\* class of the header; after set_extended_r_code(v) with v <= 0xFFF,
\* extended_r_code() returns v & 0xFF0.
C25_OptFields ==
    phase = "Opt accessors" =>
        /\ ret.version = arg.opt.hdr.ttl[1] % 256
        /\ ret.is_do = ((arg.opt.hdr.ttl[2] \div 32768) % 2 = 1)
        /\ ret.extended_r_code = (arg.opt.hdr.ttl[1] \div 256) * 16
        /\ ret.udp_size = arg.opt.hdr.class
        /\ arg.v <= 4095 => ret.after = arg.v - (arg.v % 16)

\* C27: set_do(&[false]) leaves bit 15 of the ttl clear, set_do(&[true]) and
\* set_do(&[]) leave it set, and every other bit of the ttl is unchanged, so
\* is_do() afterwards is the requested value.
C27_SetDoOnlyBit15 ==
    (phase = "set_do" /\ Len(arg.d) <= 1) =>
        LET want == (arg.d # <<FALSE>>)
        IN  /\ ((ret.hdr.ttl[2] \div 32768) % 2 = 1) = want
            /\ ret.hdr.ttl[1] = arg.opt.hdr.ttl[1]
            /\ ret.hdr.ttl[2] % 32768 = arg.opt.hdr.ttl[2] % 32768
            /\ is_do(ret) = want

----------------------------------------------------------------------------
(* Properties of section decoding *)

\* C26: after unpack_slice decodes a record of any variant the cursor is
\* rd_length bytes past the end of the record's header, so every record
\* header is read from the byte after the declared rdata of the record
\* before it, also when a payload decoder would consume more or fewer bytes
\* than rd_length.
C26_RecordsAligned ==
    phase = "unpack_slice" =>
        /\ ret.st = "Ok"
        /\ ret.pos = Len(arg.buf)
        /\ [i \in 1..Len(ret.val) |-> <<ret.val[i].hdr.typ, ret.val[i].hdr.rd_length>>]
              = [i \in 1..Len(arg.recs) |-> <<arg.recs[i].typ, arg.recs[i].rd_length>>]

----------------------------------------------------------------------------
(* Properties of the name round trip *)

\* the labels in text form, each followed by a dot; "." for no label
RECURSIVE DottedText(_)
DottedText(labels) ==
    IF labels = <<>> THEN <<>> ELSE (labels[1] \o <<46>>) \o DottedText(Tail(labels))

\* C28: for every name pack_domain_name accepts, unpack_domain_name at
\* offset 0 of the bytes produced succeeds, returns the position after the
\* produced bytes and the same labels with a trailing dot ("." for the
\* root name); no length byte is read back as a pointer or as malformed.
C28_NameRoundTrip ==
    (phase = "name round trip" /\ ret.st = "Ok") =>
        /\ ret.un.st = "Ok"
        /\ ret.un.pos = Len(ret.buf)
        /\ ret.un.name = IF NonEmptySegments(arg.segs) = <<>> THEN <<46>>
                         ELSE DottedText(NonEmptySegments(arg.segs))

----------------------------------------------------------------------------
(* Properties of the partial decoders *)

\* C29: on every input on which Msg::unpack returns Ok(m),
\* Msg::unpack_questions returns Some(list) with list = m.question and
\* Msg::unpack_answer returns Some(records) with records = m.answer.
C29_PartialDecodersAgree ==
    (phase = "answers" /\ out.st = "Ok") =>
        /\ outq = [st |-> "Some", val |-> out.val.question]
        /\ ret = [st |-> "Some", val |-> out.val.answer]

----------------------------------------------------------------------------
(* Properties of a failed encode *)

\* C30: whenever Msg::pack returns an error (a rejected response code, a
\* label longer than 255 bytes in a name, an invalid Client-Subnet option,
\* malformed hex in a payload), no byte has been appended to the buffer,
\* which was empty before the call.
C30_FailedPackWritesNothing ==
    (PackCalled /\ packed.st = "Err") => packed.buf = <<>>

====
